---------------------------- MODULE Spec2Model ----------------------------
(***************************************************************************)
(* A model of the planaria particle simulator (src/src/mask_painter):      *)
(* the periodic ParticleSpawner, the DividerManager, and the per-tick      *)
(* orchestration of MaskPainter (spawn, move+reflect, capture, removal,    *)
(* expiry, decay) over a small ellipse and exposure grid.                  *)
(*                                                                         *)
(* The specifications share the variables:                                 *)
(*   SpecSpawner    a ParticleSpawner driven through its public methods    *)
(*   SpecDivider    a DividerManager driven through its public methods     *)
(*   SpecParticle   one Particle: move and reflect_at_boundary             *)
(*   SpecParticles  a ParticleManager driven through its public methods    *)
(*   SpecMask       a MaskSystem: grid geometry and coordinate mapping     *)
(*   SpecExposure   a MaskSystem: captures, decay, reset, update_config    *)
(*   SpecStore      a MaskSystem with save_mask and load_mask              *)
(*   Spec           the MaskPainter application: ticks, clear, handlers    *)
(*   SpecPanel      the application with every slider handler             *)
(*   SpecSaturation the application with a threshold one capture reaches   *)
(*   SpecPopulation the application run over several spawn intervals       *)
(*   SpecLoop       the event loop, perform_step phase by phase            *)
(*   SpecViews      the read accessors and the values they returned        *)
(*                                                                         *)
(* Floating point quantities are fixed-point integers: probabilities and   *)
(* random samples in units of 1/ProbScale, exposure in units chosen so     *)
(* that every decay of a run is exact, world coordinates on the integer    *)
(* lattice.  Python values None/True/False returned by a method are the    *)
(* strings "None", "True", "False".                                        *)
(***************************************************************************)
EXTENDS Integers, Sequences, FiniteSets, TLC

VARIABLES
    spawner,              \* ParticleSpawner: x, y, spawn_count, spawn_interval, step_counter, is_active
    calls,                \* history: results of should_spawn() since the counter was last zero
    dividers,             \* DividerManager.dividers: sequence of [name, x, probability]
    planaria_bounds,      \* DividerManager.planaria_bounds: [center_x, center_y, radius_x, radius_y]
    particle_manager,     \* ParticleManager: particles (sequence of [x, y, velocity, age, born]), max_lifetime, ellipse
    mask_system,          \* MaskSystem: mask_grid, particle_count_mask, grid geometry, ellipse
    step_counter,         \* MaskPainter.step_counter
    current_config,       \* MaskPainter.current_config (the leaves the core reads)
    config_manager,       \* ConfigManager.config['profiles']: the stored profiles
    free_particle,        \* a Particle built and driven directly
    files,                \* the .npy files on disk: path -> array saved, with its shape
    events,               \* the Qt event loop: the signals emitted and not yet delivered
    tick,                 \* the perform_step call on the stack: the phase reached and its locals
    views,                \* what the read accessors have returned to a caller
    catch_log,            \* history: what the perform_step just run did, particle by particle
    last                  \* history: the last operation called, its arguments and its result

vars == <<spawner, calls, dividers, planaria_bounds, particle_manager,
          mask_system, step_counter, current_config, config_manager,
          free_particle, files, events, tick, views, catch_log, last>>

spawnerVars == <<spawner, calls>>
dividerVars == <<dividers, planaria_bounds>>
appVars == <<particle_manager, mask_system, step_counter, current_config,
             config_manager, catch_log>>
particleVars == <<free_particle>>
fileVars == <<files>>
loopVars == <<events, tick>>
viewVars == <<views>>

-----------------------------------------------------------------------------
(* Bounds of the model *)

\* should_spawn() calls explored from a fresh counter
MaxCalls == 6

\* largest integer handed to a spawner constructor or setter
MaxArg == 2

\* longest divider sequence add_divider is asked to extend
MaxDividers == 2

\* ticks explored between two clears of the simulation
MaxTicks == 2

\* particles alive during a tick
MaxParticles == 2

\* probabilities and random samples are multiples of 1/ProbScale
ProbScale == 4

\* the integers handed to constructors and setters, invalid ones included
ArgInts == (0 - 1) .. MaxArg

-----------------------------------------------------------------------------
(* Python helpers *)

Max(a, b) == IF a >= b THEN a ELSE b

Min(a, b) == IF a <= b THEN a ELSE b

Bool(b) == IF b THEN "True" ELSE "False"

\* Python's a % b for b # 0: the result has the sign of b
PyMod(a, b) == IF b > 0 THEN a % b ELSE 0 - ((0 - a) % (0 - b))

\* the record of the last call; unused fields keep these defaults.  For
\* clear_simulation, x and val are the step counter and the number of
\* particles it found; for update_planaria_bounds, val is the number of
\* dividers it dropped.
NoCall == [op |-> "init", ret |-> "None", name |-> "", x |-> 0, val |-> 0]

Call(op, ret) == [NoCall EXCEPT !.op = op, !.ret = ret]

-----------------------------------------------------------------------------
(* ParticleSpawner (spawner.py) *)

\* ParticleSpawner.__init__: the arguments are stored as given
ParticleSpawner(x, y, spawn_count, spawn_interval) ==
    [x |-> x, y |-> y, spawn_count |-> spawn_count,
     spawn_interval |-> spawn_interval, step_counter |-> 0, is_active |-> TRUE]

spawner_set_position(sp, x, y) == [sp EXCEPT !.x = x, !.y = y]

get_position(sp) == <<sp.x, sp.y>>

set_spawn_count(sp, count) == [sp EXCEPT !.spawn_count = Max(1, count)]

set_spawn_interval(sp, interval) == [sp EXCEPT !.spawn_interval = Max(1, interval)]

\* a plausible slip: the test is made before the counter is advanced
should_spawn_test_first(sp) ==
    IF ~sp.is_active THEN [sp |-> sp, ret |-> "False"]
    ELSE IF sp.spawn_interval = 0
         THEN [sp |-> sp, ret |-> "ZeroDivisionError"]
         ELSE [sp |-> [sp EXCEPT !.step_counter = @ + 1],
               ret |-> Bool(PyMod(sp.step_counter, sp.spawn_interval) = 0)]

\* a plausible slip: the interval is not consulted, every step spawns
should_spawn_every_step(sp) ==
    IF ~sp.is_active THEN [sp |-> sp, ret |-> "False"]
    ELSE [sp |-> [sp EXCEPT !.step_counter = @ + 1], ret |-> "True"]

\* should_spawn() with current_step = None: the new spawner and the result.
\* The counter is advanced before the remainder is taken, so a zero interval
\* raises after the increment.
should_spawn(sp) ==
    IF ~sp.is_active THEN [sp |-> sp, ret |-> "False"]
    ELSE LET inc == [sp EXCEPT !.step_counter = @ + 1]
         IN  IF sp.spawn_interval = 0
             THEN [sp |-> inc, ret |-> "ZeroDivisionError"]
             ELSE [sp |-> inc,
                   ret |-> Bool(PyMod(inc.step_counter, inc.spawn_interval) = 0)]

reset_step_counter(sp) == [sp EXCEPT !.step_counter = 0]

set_active(sp, active) == [sp EXCEPT !.is_active = active]

\* update_from_config: cfg.has is the set of keys present under 'spawner'
spawner_update_from_config(sp, cfg) ==
    LET s1 == IF "x" \in cfg.has THEN [sp EXCEPT !.x = cfg.x] ELSE sp
        s2 == IF "y" \in cfg.has THEN [s1 EXCEPT !.y = cfg.y] ELSE s1
        s3 == IF "spawn_count" \in cfg.has
              THEN set_spawn_count(s2, cfg.spawn_count) ELSE s2
    IN  IF "spawn_interval" \in cfg.has
        THEN set_spawn_interval(s3, cfg.spawn_interval) ELSE s3

\* get_next_spawn_steps: -1 when inactive; the modulo raises
\* ZeroDivisionError for an interval of 0
get_next_spawn_steps(sp) ==
    IF ~sp.is_active THEN [ret |-> 0 - 1, raised |-> "None"]
    ELSE IF sp.spawn_interval = 0
         THEN [ret |-> 0, raised |-> "ZeroDivisionError"]
         ELSE [ret |-> sp.spawn_interval
                           - PyMod(sp.step_counter, sp.spawn_interval),
               raised |-> "None"]

force_spawn(sp) ==
    IF ~sp.is_active THEN [sp |-> sp, ret |-> "False"]
    ELSE [sp |-> [sp EXCEPT !.step_counter = 0], ret |-> "True"]

-----------------------------------------------------------------------------
(* Divider and DividerManager (divider.py).  The colour of a divider is an  *)
(* opaque display attribute that no operation reads; it is left out.        *)

\* Divider.__init__: the arguments are stored as given
Divider(name, x, probability) == [name |-> name, x |-> x, probability |-> probability]

\* strictly to the right of the divider
is_point_in_region(d, point_x) == point_x > d.x

get_catch_probability(d) == d.probability

\* Divider.set_probability: max(0.0, min(1.0, probability))
set_probability(d, probability) ==
    [d EXCEPT !.probability = Max(0, Min(ProbScale, probability))]

\* Divider.update_from_dict: config_dict.has is the set of keys present
update_from_dict(d, config_dict) ==
    LET d1 == IF "x" \in config_dict.has THEN [d EXCEPT !.x = config_dict.x] ELSE d
    IN  IF "probability" \in config_dict.has
        THEN set_probability(d1, config_dict.probability)
        ELSE d1

\* DividerManager.load_from_config: one Divider per entry, in the order given
load_from_config(divider_configs) ==
    [i \in 1..Len(divider_configs) |->
        Divider(divider_configs[i].name, divider_configs[i].x,
                divider_configs[i].probability)]

\* the index of the first divider called name, 0 for None
get_divider_by_name(ds, name) ==
    IF \E i \in 1..Len(ds) : ds[i].name = name
    THEN CHOOSE i \in 1..Len(ds) :
            /\ ds[i].name = name
            /\ \A j \in 1..(i - 1) : ds[j].name # name
    ELSE 0

\* a plausible slip: the bounds test is strict
validate_position_strict(bounds, x) ==
    (bounds.center_x - bounds.radius_x < x) /\ (x < bounds.center_x + bounds.radius_x)

validate_position(bounds, x) ==
    LET min_x == bounds.center_x - bounds.radius_x
        max_x == bounds.center_x + bounds.radius_x
    IN  (min_x <= x) /\ (x <= max_x)

\* list.sort(key=lambda d: d.x): a stable sort, ascending by x
RECURSIVE SortByX(_)
SortByX(ds) ==
    IF Len(ds) <= 1 THEN ds
    ELSE LET front == SortByX(SubSeq(ds, 1, Len(ds) - 1))
             d == ds[Len(ds)]
             k == Cardinality({i \in 1..Len(front) : front[i].x <= d.x})
         IN  SubSeq(front, 1, k) \o <<d>> \o SubSeq(front, k + 1, Len(front))

RemoveAt(s, i) == SubSeq(s, 1, i - 1) \o SubSeq(s, i + 1, Len(s))

\* a plausible slip: the name is not looked up before the insertion
add_divider_no_name_check(ds, bounds, name, position, probability) ==
    IF ~validate_position(bounds, position)
    THEN [dividers |-> ds, ret |-> "False"]
    ELSE [dividers |-> SortByX(Append(ds, Divider(name, position, probability))),
          ret |-> "True"]

add_divider(ds, bounds, name, position, probability) ==
    IF get_divider_by_name(ds, name) # 0
    THEN [dividers |-> ds, ret |-> "False"]
    ELSE IF ~validate_position(bounds, position)
         THEN [dividers |-> ds, ret |-> "False"]
         ELSE [dividers |-> SortByX(Append(ds, Divider(name, position, probability))),
               ret |-> "True"]

remove_divider(ds, name) ==
    LET i == get_divider_by_name(ds, name)
    IN  IF i # 0 THEN [dividers |-> RemoveAt(ds, i), ret |-> "True"]
        ELSE [dividers |-> ds, ret |-> "False"]

rename_divider(ds, old_name, new_name) ==
    IF get_divider_by_name(ds, new_name) # 0
    THEN [dividers |-> ds, ret |-> "False"]
    ELSE LET i == get_divider_by_name(ds, old_name)
         IN  IF i # 0
             THEN [dividers |-> [ds EXCEPT ![i].name = new_name], ret |-> "True"]
             ELSE [dividers |-> ds, ret |-> "False"]

\* the last divider, in list order, that lies strictly left of x; 0 if none
get_region_probability(ds, x) ==
    LET applicable_dividers == SelectSeq(ds, LAMBDA d : is_point_in_region(d, x))
    IN  IF applicable_dividers = <<>> THEN 0
        ELSE get_catch_probability(applicable_dividers[Len(applicable_dividers)])

\* keeps the dividers valid under the new bounds, in their order
update_planaria_bounds(ds, bounds) ==
    SelectSeq(ds, LAMBDA d : validate_position(bounds, d.x))

clear_all_dividers(ds) == [dividers |-> <<>>, ret |-> Len(ds)]

-----------------------------------------------------------------------------
(* Particle and ParticleManager (particle.py).  spawn_particle creates     *)
(* every particle in the default "diffusion" mode, in which move() adds a  *)
(* Gaussian displacement and never reads angle, vx or vy; those fields are *)
(* left out of the particles of a manager.  A particle built directly may  *)
(* move in "straight" mode; it carries its velocity as the exact fraction  *)
(* (vx / vden, vy / vden).  Positions are lattice points: a displacement   *)
(* and the point reflect_at_boundary pulls back to are rounded towards 0   *)
(* and towards the centre.  born is history: the tick that created the     *)
(* particle (0 outside the application).                                   *)

\* reflect_at_boundary pulls a point back by sqrt(1/d) * 0.99
ScaleNum == 99

ScaleDen == 100

Sq(a) == a * a

Abs(a) == IF a >= 0 THEN a ELSE 0 - a

\* a / b rounded towards 0, for b > 0
TruncDiv(a, b) == IF a >= 0 THEN a \div b ELSE 0 - ((0 - a) \div b)

\* Particle.__init__ with the default movement_mode
Particle(x, y, velocity) ==
    [x |-> x, y |-> y, velocity |-> velocity, age |-> 0, born |-> 0,
     movement_mode |-> "diffusion"]

\* Particle.__init__ with a velocity vector and a movement_mode
ParticleWithVelocity(x, y, vx, vy, movement_mode) ==
    [x |-> x, y |-> y, age |-> 0, born |-> 0, movement_mode |-> movement_mode,
     vx |-> vx, vy |-> vy, vden |-> 1]

\* sigma = sqrt(2 * velocity * dt) for dt = 1, with velocities counted in
\* halves: the integer part of the square root of the velocity
Sigma(velocity) ==
    CHOOSE sigma \in 0..velocity : Sq(sigma) <= velocity /\ Sq(sigma + 1) > velocity

\* np.random.normal(0, sigma) for each particle of a list, twice: sigma
\* times the standard normal values draws[i]
normal_draws(particles, draws) ==
    [i \in 1..Len(particles) |->
        <<Sigma(particles[i].velocity) * draws[i][1],
          Sigma(particles[i].velocity) * draws[i][2]>>]

\* a plausible slip: the age is advanced in the diffusion branch only
move_age_in_diffusion_only(p, d) ==
    IF p.movement_mode = "straight"
    THEN [p EXCEPT !.x = @ + TruncDiv(p.vx, p.vden), !.y = @ + TruncDiv(p.vy, p.vden)]
    ELSE [p EXCEPT !.x = @ + d[1], !.y = @ + d[2], !.age = @ + 1]

\* Particle.move with dt = 1: d is the displacement drawn in diffusion mode
move(p, d) ==
    IF p.movement_mode = "straight"
    THEN [p EXCEPT !.x = @ + TruncDiv(p.vx, p.vden), !.y = @ + TruncDiv(p.vy, p.vden),
                   !.age = @ + 1]
    ELSE IF p.movement_mode = "diffusion"
         THEN [p EXCEPT !.x = @ + d[1], !.y = @ + d[2], !.age = @ + 1]
         ELSE [p EXCEPT !.age = @ + 1]

\* ((x-cx)/rx)^2 + ((y-cy)/ry)^2 compared with 1, cleared of denominators
EllipseLhs(e, x, y) ==
    Sq(x - e.center_x) * Sq(e.radius_y) + Sq(y - e.center_y) * Sq(e.radius_x)

EllipseRhs(e) == Sq(e.radius_x) * Sq(e.radius_y)

\* c * sqrt(1/d) * 0.99 rounded towards 0, for an offset c of a point whose
\* ellipse value d = q / EllipseRhs(e) is at least 1
Pull(e, c, q) ==
    LET m == CHOOSE k \in 0..Abs(c) :
                /\ Sq(k) * Sq(ScaleDen) * q <= Sq(ScaleNum * Abs(c) * e.radius_x * e.radius_y)
                /\ \A j \in (k + 1)..Abs(c) :
                      Sq(j) * Sq(ScaleDen) * q > Sq(ScaleNum * Abs(c) * e.radius_x * e.radius_y)
    IN  IF c >= 0 THEN m ELSE 0 - m

\* the position part of reflect_at_boundary: a point on or outside the
\* ellipse is pulled back inside along its ray from the centre
reflect_at_boundary(p, e) ==
    LET q == EllipseLhs(e, p.x, p.y)
    IN  IF q >= EllipseRhs(e)
        THEN [p EXCEPT !.x = e.center_x + Pull(e, p.x - e.center_x, q),
                       !.y = e.center_y + Pull(e, p.y - e.center_y, q)]
        ELSE p

\* the outward normal at the particle, up to a positive factor:
\* (2 dx / rx^2, 2 dy / ry^2) times rx^2 ry^2 / 2
OutwardNormal(p, e) ==
    <<(p.x - e.center_x) * Sq(e.radius_y), (p.y - e.center_y) * Sq(e.radius_x)>>

\* the sign of dot = v . n is that of vx * nx + vy * ny
OutwardDot(p, e) ==
    p.vx * OutwardNormal(p, e)[1] + p.vy * OutwardNormal(p, e)[2]

\* a plausible slip: the velocity is corrected whatever the sign of dot
reflect_with_velocity_any_dot(p, e, bounce) ==
    LET n == OutwardNormal(p, e)
        norm2 == Sq(n[1]) + Sq(n[2])
        dot == OutwardDot(p, e)
        moved == reflect_at_boundary(p, e)
    IN  IF EllipseLhs(e, p.x, p.y) >= EllipseRhs(e) /\ norm2 > 0
        THEN [moved EXCEPT
                 !.vx = p.vx * bounce[2] * norm2 - (bounce[2] + bounce[1]) * dot * n[1],
                 !.vy = p.vy * bounce[2] * norm2 - (bounce[2] + bounce[1]) * dot * n[2],
                 !.vden = p.vden * bounce[2] * norm2]
        ELSE moved

\* reflect_at_boundary on a particle that carries its velocity; bounce is
\* the fraction bounce[1] / bounce[2].  On or outside the ellipse, with
\* dot > 0, v becomes v - (1 + bounce) * dot * n for the unit normal n.
reflect_with_velocity(p, e, bounce) ==
    LET n == OutwardNormal(p, e)
        norm2 == Sq(n[1]) + Sq(n[2])
        dot == OutwardDot(p, e)
        moved == reflect_at_boundary(p, e)
    IN  IF EllipseLhs(e, p.x, p.y) >= EllipseRhs(e) /\ norm2 > 0 /\ dot > 0
        THEN [moved EXCEPT
                 !.vx = p.vx * bounce[2] * norm2 - (bounce[2] + bounce[1]) * dot * n[1],
                 !.vy = p.vy * bounce[2] * norm2 - (bounce[2] + bounce[1]) * dot * n[2],
                 !.vden = p.vden * bounce[2] * norm2]
        ELSE moved

\* a plausible slip: a particle lives one tick past its lifetime
is_expired_strict(p, max_lifetime) == p.age > max_lifetime

is_expired(p, max_lifetime) == p.age >= max_lifetime

\* ParticleManager.__init__
ParticleManager(config) ==
    [particles |-> <<>>,
     max_lifetime |-> config.particles.lifetime,
     ellipse |-> config.ellipse]

\* range(count) is empty for count <= 0
\* a plausible slip: "for _ in range(1, count)" creates one particle too few
spawn_multiple_particles_short(pm, x, y, count, velocity) ==
    [pm EXCEPT !.particles = @ \o [i \in 1..(count - 1) |-> Particle(x, y, velocity)]]

spawn_multiple_particles(pm, x, y, count, velocity) ==
    [pm EXCEPT !.particles = @ \o [i \in 1..count |-> Particle(x, y, velocity)]]

\* a plausible slip: particles of age 0, created in this tick, are not moved
move_all_particles_skip_new(pm, moves) ==
    [pm EXCEPT !.particles =
        [i \in 1..Len(@) |->
            IF @[i].age = 0 THEN @[i]
            ELSE reflect_at_boundary(move(@[i], moves[i]), pm.ellipse)]]

\* a plausible slip: each particle is reflected before it is moved
move_all_particles_reflect_first(pm, moves) ==
    [pm EXCEPT !.particles =
        [i \in 1..Len(@) |-> move(reflect_at_boundary(@[i], pm.ellipse), moves[i])]]

\* move, then reflect, each particle; moves[i] is the displacement drawn for i
move_all_particles(pm, moves) ==
    [pm EXCEPT !.particles =
        [i \in 1..Len(@) |-> reflect_at_boundary(move(@[i], moves[i]), pm.ellipse)]]

remove_expired_particles(pm) ==
    LET kept == SelectSeq(pm.particles, LAMBDA p : ~is_expired(p, pm.max_lifetime))
    IN  [pm |-> [pm EXCEPT !.particles = kept],
         ret |-> Len(pm.particles) - Len(kept)]

\* a plausible slip: particles compared by value, so that every particle
\* equal to a queued one goes with it
remove_particles_by_value(pm, queued) ==
    [pm EXCEPT !.particles =
        SelectSeq(pm.particles,
                  LAMBDA p : \A i \in queued : pm.particles[i] # p)]

\* remove_particle for each particle queued: membership is by identity, so
\* the particles at the queued indices go and every other one stays
remove_particles(pm, queued) ==
    LET RECURSIVE Keep(_)
        Keep(i) == IF i > Len(pm.particles) THEN <<>>
                   ELSE IF i \in queued THEN Keep(i + 1)
                        ELSE <<pm.particles[i]>> \o Keep(i + 1)
    IN  [pm EXCEPT !.particles = Keep(1)]

clear_all_particles(pm) == [pm EXCEPT !.particles = <<>>]

-----------------------------------------------------------------------------
(* MaskSystem (mask_system.py).  An exposure of v/ProbScale is the integer *)
(* v * ProbScale^MaxTicks, so that MaxTicks decays by a rate that is a     *)
(* multiple of 1/ProbScale are exact.  None is the empty function <<>>.    *)

RECURSIVE Pow(_, _)
Pow(b, n) == IF n = 0 THEN 1 ELSE b * Pow(b, n - 1)

MaskUnits(v) == v * Pow(ProbScale, MaxTicks)

\* np.zeros((grid_size_y, grid_size_x))
Zeros(rows, cols) == [c \in (0..(rows - 1)) \X (0..(cols - 1)) |-> 0]

\* create_mask_grid with the row count rounded to the nearest integer
create_mask_grid_rounded(ms) ==
    LET x_min == ms.ellipse.center_x - ms.ellipse.radius_x - ms.grid_padding
        x_max == ms.ellipse.center_x + ms.ellipse.radius_x + ms.grid_padding
        y_min == ms.ellipse.center_y - ms.ellipse.radius_y - ms.grid_padding
        y_max == ms.ellipse.center_y + ms.ellipse.radius_y + ms.grid_padding
        grid_size_x == ms.mask_resolution
        grid_size_y == (2 * ms.mask_resolution * (y_max - y_min) + (x_max - x_min))
                           \div (2 * (x_max - x_min))
    IN  [ms EXCEPT !.x_min = x_min, !.x_max = x_max,
                   !.y_min = y_min, !.y_max = y_max,
                   !.grid_size_x = grid_size_x, !.grid_size_y = grid_size_y,
                   !.mask_grid = Zeros(grid_size_y, grid_size_x),
                   !.particle_count_mask =
                       IF ms.count_particles THEN Zeros(grid_size_y, grid_size_x)
                       ELSE @]

\* create_mask_grid: bounds, dimensions (columns = resolution, rows by the
\* aspect ratio, truncated) and zeroed grids; the count grid only if counting
create_mask_grid(ms) ==
    LET x_min == ms.ellipse.center_x - ms.ellipse.radius_x - ms.grid_padding
        x_max == ms.ellipse.center_x + ms.ellipse.radius_x + ms.grid_padding
        y_min == ms.ellipse.center_y - ms.ellipse.radius_y - ms.grid_padding
        y_max == ms.ellipse.center_y + ms.ellipse.radius_y + ms.grid_padding
        grid_size_x == ms.mask_resolution
        grid_size_y == (ms.mask_resolution * (y_max - y_min)) \div (x_max - x_min)
    IN  [ms EXCEPT !.x_min = x_min, !.x_max = x_max,
                   !.y_min = y_min, !.y_max = y_max,
                   !.grid_size_x = grid_size_x, !.grid_size_y = grid_size_y,
                   !.mask_grid = Zeros(grid_size_y, grid_size_x),
                   !.particle_count_mask =
                       IF ms.count_particles THEN Zeros(grid_size_y, grid_size_x)
                       ELSE @]

\* MaskSystem.__init__
MaskSystem(config) ==
    create_mask_grid(
        [mask_grid |-> <<>>, particle_count_mask |-> <<>>,
         mask_resolution |-> config.system.mask_resolution,
         grid_padding |-> config.system.grid_padding,
         count_particles |-> config.system.count_particles,
         ellipse |-> config.ellipse,
         x_min |-> 0, x_max |-> 0, y_min |-> 0, y_max |-> 0,
         grid_size_x |-> 0, grid_size_y |-> 0])

\* on or inside the ellipse
is_inside_ellipse(ms, x, y) == EllipseLhs(ms.ellipse, x, y) <= EllipseRhs(ms.ellipse)

\* <<row, col>>, or <<-1, -1>> outside the bounding box
coord_to_grid(ms, x, y) ==
    IF x < ms.x_min \/ x > ms.x_max \/ y < ms.y_min \/ y > ms.y_max
    THEN <<0 - 1, 0 - 1>>
    ELSE LET grid_x == ((x - ms.x_min) * ms.grid_size_x) \div (ms.x_max - ms.x_min)
             grid_y == ((y - ms.y_min) * ms.grid_size_y) \div (ms.y_max - ms.y_min)
         IN  <<Max(0, Min(ms.grid_size_y - 1, grid_y)),
               Max(0, Min(ms.grid_size_x - 1, grid_x))>>

\* <<world_x, world_y>> of a cell; exact on the grids of this model, whose
\* cells are one lattice step wide and high
grid_to_coord(ms, grid_y, grid_x) ==
    <<ms.x_min + (grid_x * (ms.x_max - ms.x_min)) \div ms.grid_size_x,
      ms.y_min + (grid_y * (ms.y_max - ms.y_min)) \div ms.grid_size_y>>

\* grid_to_coord without rounding: <<world_x * grid_size_x, world_y * grid_size_y>>;
\* the divisions raise ZeroDivisionError on a grid with no column or no row
grid_to_coord_scaled(ms, grid_y, grid_x) ==
    IF ms.grid_size_x = 0 \/ ms.grid_size_y = 0
    THEN [ret |-> "ZeroDivisionError", val |-> <<0, 0>>]
    ELSE [ret |-> "tuple",
          val |-> <<ms.x_min * ms.grid_size_x + grid_x * (ms.x_max - ms.x_min),
                    ms.y_min * ms.grid_size_y + grid_y * (ms.y_max - ms.y_min)>>]

\* is_inside_ellipse at the point grid_to_coord gives for a cell, w being
\* that point times the grid dimensions (grid_to_coord_scaled)
is_inside_ellipse_scaled(ms, w) ==
    Sq(w[1] - ms.ellipse.center_x * ms.grid_size_x)
          * Sq(ms.ellipse.radius_y) * Sq(ms.grid_size_y)
      + Sq(w[2] - ms.ellipse.center_y * ms.grid_size_y)
          * Sq(ms.ellipse.radius_x) * Sq(ms.grid_size_x)
    <= Sq(ms.ellipse.radius_x * ms.ellipse.radius_y * ms.grid_size_x * ms.grid_size_y)

\* distance <= radius between the point (x, y) and the point grid_to_coord
\* gives for a cell, w being that point times the grid dimensions
WithinRadiusScaled(ms, w, x, y, radius) ==
    Sq(w[1] - x * ms.grid_size_x) * Sq(ms.grid_size_y)
      + Sq(w[2] - y * ms.grid_size_y) * Sq(ms.grid_size_x)
    <= Sq(radius * ms.grid_size_x * ms.grid_size_y)

\* the cells the two loops of _apply_exposure_circle visit
SearchWindow(ms, center_x, center_y, radius) ==
    LET center == coord_to_grid(ms, center_x, center_y)
        radius_grid_x == (radius * ms.grid_size_x) \div (ms.x_max - ms.x_min) + 1
        radius_grid_y == (radius * ms.grid_size_y) \div (ms.y_max - ms.y_min) + 1
    IN  {c \in DOMAIN ms.mask_grid :
            /\ Abs(c[1] - center[1]) <= radius_grid_y
            /\ Abs(c[2] - center[2]) <= radius_grid_x}

\* a plausible slip: the cells within radius are painted without asking
\* whether they lie inside the ellipse
_apply_exposure_circle_unmasked(ms, center_x, center_y, radius, exposure) ==
    LET center == coord_to_grid(ms, center_x, center_y)
        Painted(c) ==
            /\ c \in SearchWindow(ms, center_x, center_y, radius)
            /\ WithinRadiusScaled(ms, grid_to_coord_scaled(ms, c[1], c[2]).val,
                                  center_x, center_y, radius)
    IN  IF center[1] < 0 \/ center[2] < 0 THEN ms
        ELSE [ms EXCEPT !.mask_grid =
                [c \in DOMAIN @ |-> IF Painted(c) THEN @[c] + MaskUnits(exposure)
                                    ELSE @[c]]]

\* adds exposure to the cells of the search window whose point (the one
\* grid_to_coord gives) lies within radius of the capture point and inside
\* the ellipse
_apply_exposure_circle(ms, center_x, center_y, radius, exposure) ==
    LET center == coord_to_grid(ms, center_x, center_y)
        Painted(c) ==
            /\ c \in SearchWindow(ms, center_x, center_y, radius)
            /\ WithinRadiusScaled(ms, grid_to_coord_scaled(ms, c[1], c[2]).val,
                                  center_x, center_y, radius)
            /\ is_inside_ellipse_scaled(ms, grid_to_coord_scaled(ms, c[1], c[2]).val)
    IN  IF center[1] < 0 \/ center[2] < 0 THEN ms
        ELSE [ms EXCEPT !.mask_grid =
                [c \in DOMAIN @ |-> IF Painted(c) THEN @[c] + MaskUnits(exposure)
                                    ELSE @[c]]]

\* a plausible slip: the count grid is indexed [grid_x, grid_y]
CountCapture_swapped(painted, g) ==
    LET counting == /\ painted.count_particles
                    /\ painted.particle_count_mask # <<>>
                    /\ g[1] >= 0 /\ g[2] >= 0
    IN  IF counting /\ <<g[2], g[1]>> \notin DOMAIN painted.particle_count_mask
        THEN [ms |-> painted, ret |-> FALSE, cell |-> "hit", draws |-> 1,
              raised |-> "IndexError"]
        ELSE [ms |-> IF counting
                     THEN [painted EXCEPT !.particle_count_mask[<<g[2], g[1]>>] = @ + 1]
                     ELSE painted,
              ret |-> TRUE, cell |-> "hit", draws |-> 1, raised |-> "None"]

\* "Count particle if enabled", on the stamped MaskSystem: the capture is
\* counted in the particle's cell g if counting is on and a count grid
\* exists; indexing a count grid that lacks the cell raises IndexError
CountCapture(painted, g) ==
    LET counting == /\ painted.count_particles
                    /\ painted.particle_count_mask # <<>>
                    /\ g[1] >= 0 /\ g[2] >= 0
    IN  IF counting /\ g \notin DOMAIN painted.particle_count_mask
        THEN [ms |-> painted, ret |-> FALSE, cell |-> "hit", draws |-> 1,
              raised |-> "IndexError"]
        ELSE [ms |-> IF counting
                     THEN [painted EXCEPT !.particle_count_mask[g] = @ + 1]
                     ELSE painted,
              ret |-> TRUE, cell |-> "hit", draws |-> 1, raised |-> "None"]

\* the capture branch of try_catch_particle_by_cell: the exposure is stamped,
\* then the capture is counted
CaptureAt(ms, particle_x, particle_y, catch_params) ==
    CountCapture(_apply_exposure_circle(ms, particle_x, particle_y,
                     catch_params.radius, catch_params.exposure),
                 coord_to_grid(ms, particle_x, particle_y))

\* a plausible slip: a sample equal to the probability does not capture
try_catch_particle_by_cell_strict(ms, particle_x, particle_y, catch_params, sample) ==
    IF ~is_inside_ellipse(ms, particle_x, particle_y)
    THEN [ms |-> ms, ret |-> FALSE, cell |-> "outside", draws |-> 0, raised |-> "None"]
    ELSE IF sample >= catch_params.probability
         THEN [ms |-> ms, ret |-> FALSE, cell |-> "miss", draws |-> 1, raised |-> "None"]
         ELSE CaptureAt(ms, particle_x, particle_y, catch_params)

\* try_catch_particle_by_cell; sample is what np.random.random() returns if
\* it is called.  cell: "outside" (no draw), "miss" or "hit"; draws: the
\* number of calls of np.random.random(); raised: the exception, if any,
\* that ends the call instead of a return.
try_catch_particle_by_cell(ms, particle_x, particle_y, catch_params, sample) ==
    IF ~is_inside_ellipse(ms, particle_x, particle_y)
    THEN [ms |-> ms, ret |-> FALSE, cell |-> "outside", draws |-> 0, raised |-> "None"]
    ELSE IF sample > catch_params.probability
         THEN [ms |-> ms, ret |-> FALSE, cell |-> "miss", draws |-> 1, raised |-> "None"]
         ELSE CaptureAt(ms, particle_x, particle_y, catch_params)

\* a plausible slip: every cell decays, saturated or not
apply_decay_all(ms, decay_rate, saturation_threshold) ==
    IF ms.mask_grid = <<>> THEN ms
    ELSE [ms EXCEPT !.mask_grid =
            [c \in DOMAIN @ |->
                Max(0, (@[c] * (ProbScale - decay_rate)) \div ProbScale)]]

\* a plausible slip: the result is not clamped at 0
apply_decay_unclamped(ms, decay_rate, saturation_threshold) ==
    IF ms.mask_grid = <<>> THEN ms
    ELSE [ms EXCEPT !.mask_grid =
            [c \in DOMAIN @ |->
                IF @[c] < MaskUnits(saturation_threshold)
                THEN (@[c] * (ProbScale - decay_rate)) \div ProbScale
                ELSE @[c]]]

\* a plausible slip: "<=" for "<", so a cell at the threshold decays too
apply_decay_at_threshold(ms, decay_rate, saturation_threshold) ==
    IF ms.mask_grid = <<>> THEN ms
    ELSE [ms EXCEPT !.mask_grid =
            [c \in DOMAIN @ |->
                Max(0, IF @[c] <= MaskUnits(saturation_threshold)
                       THEN (@[c] * (ProbScale - decay_rate)) \div ProbScale
                       ELSE @[c])]]

\* apply_decay: cells below the threshold are multiplied by 1 - decay_rate,
\* then every cell is clamped at 0
apply_decay(ms, decay_rate, saturation_threshold) ==
    IF ms.mask_grid = <<>> THEN ms
    ELSE [ms EXCEPT !.mask_grid =
            [c \in DOMAIN @ |->
                Max(0, IF @[c] < MaskUnits(saturation_threshold)
                       THEN (@[c] * (ProbScale - decay_rate)) \div ProbScale
                       ELSE @[c])]]

\* a plausible slip: the count grid is not zeroed
reset_mask_exposure_only(ms) ==
    IF ms.mask_grid = <<>> THEN ms
    ELSE [ms EXCEPT !.mask_grid = [c \in DOMAIN @ |-> 0]]

\* reset_mask: fill(0) on each grid that exists
reset_mask(ms) ==
    [ms EXCEPT !.mask_grid = [c \in DOMAIN @ |-> 0],
               !.particle_count_mask = [c \in DOMAIN @ |-> 0]]

\* MaskSystem.update_config: the parameters are replaced; the grid and its
\* bounds are rebuilt only if the ellipse or the resolution changed
mask_system_update_config(ms, config) ==
    LET updated == [ms EXCEPT !.mask_resolution = config.system.mask_resolution,
                              !.grid_padding = config.system.grid_padding,
                              !.count_particles = config.system.count_particles,
                              !.ellipse = config.ellipse]
    IN  IF ms.ellipse # config.ellipse
           \/ ms.mask_resolution # config.system.mask_resolution
        THEN create_mask_grid(updated)
        ELSE updated

\* np.save appends ".npy" to a file name that does not end with it
NpyPath(filepath) == IF filepath = "mask" THEN "mask.npy" ELSE filepath

\* save_mask: np.save writes the exposure grid, with its shape, to the disk
save_mask(ms, fs, filepath) ==
    [fs |-> [f \in DOMAIN fs \cup {NpyPath(filepath)} |->
                IF f = NpyPath(filepath)
                THEN [shape |-> <<ms.grid_size_y, ms.grid_size_x>>,
                      data |-> ms.mask_grid]
                ELSE fs[f]],
     ret |-> TRUE]

\* a plausible slip: the loaded array is taken whatever its shape
load_mask_any_shape(ms, fs, filepath) ==
    IF filepath \in DOMAIN fs
    THEN [ms |-> [ms EXCEPT !.mask_grid = fs[filepath].data], ret |-> TRUE]
    ELSE [ms |-> ms, ret |-> FALSE]

\* load_mask: the file must exist and hold an array of the current shape
load_mask(ms, fs, filepath) ==
    IF filepath \in DOMAIN fs
       /\ fs[filepath].shape = <<ms.grid_size_y, ms.grid_size_x>>
    THEN [ms |-> [ms EXCEPT !.mask_grid = fs[filepath].data], ret |-> TRUE]
    ELSE [ms |-> ms, ret |-> FALSE]

-----------------------------------------------------------------------------
(* MaskPainter (mask_painter.py): the orchestration of the components.     *)
(* An application state is the record                                      *)
(*   [spawner, dividers, planaria_bounds, particle_manager, mask_system,   *)
(*    step_counter, current_config, config_manager]                        *)

\* a plausible slip: the cell check also runs for a particle the region caught
should_try_cell_always(particle_caught) == TRUE

\* a plausible slip: the cell check never runs once the region check has run
should_try_cell_never(particle_caught) == FALSE

\* "if not particle_caught:" in front of the cell check
should_try_cell(particle_caught) == ~particle_caught

\* process_particle_catching.  samples[i] = <<s1, s2>>: what the first and
\* the second np.random.random() made for particle i return, if made.  The
\* result carries one entry per particle for the history: where it was, and
\* for each mechanism whether a sample was drawn ("none" if not) and whether
\* it caught; stamped/counted tell whether the particle changed a grid.
\* one turn of the loop over the particles: c is the outcome of the cell
\* check; the particle is queued for removal if either mechanism caught it
CatchOne(acc, i, particle, region_probability, by_region, c) ==
    [ms |-> c.ms,
     queued |-> IF by_region \/ c.ret THEN acc.queued \cup {i} ELSE acc.queued,
     entries |-> Append(acc.entries,
         [x |-> particle.x, y |-> particle.y,
          velocity |-> particle.velocity,
          age |-> particle.age, born |-> particle.born,
          region |-> IF ~(region_probability > 0) THEN "none"
                     ELSE IF by_region THEN "hit" ELSE "miss",
          cell |-> c.cell,
          stamped |-> c.ms.mask_grid # acc.ms.mask_grid,
          counted |-> c.ms.particle_count_mask # acc.ms.particle_count_mask])]

\* "Check cell-based catching if not caught by region"
TryCell(ms, particle, by_region, catching_config, sample) ==
    IF should_try_cell(by_region)
    THEN try_catch_particle_by_cell(ms, particle.x, particle.y, catching_config,
                                    sample)
    ELSE [ms |-> ms, ret |-> FALSE, cell |-> "none"]

\* "Check region-based catching": a sample is drawn for a positive
\* probability only
ByRegion(region_probability, sample) ==
    region_probability > 0 /\ sample < region_probability

\* "Remove caught particles", after the loop
RemoveCaught(pm, done) ==
    [particle_manager |-> remove_particles(pm, done.queued),
     mask_system |-> done.ms,
     entries |-> done.entries]

\* a plausible slip: the loop runs over the live list and removes a caught
\* particle at once, so the particle that follows a caught one is skipped
capture_loop_live(pm, ds, ms, catching_config, samples) ==
    LET RECURSIVE Loop(_, _)
        Turn(i, acc) ==
            CatchOne(acc, i, pm.particles[i],
                get_region_probability(ds, pm.particles[i].x),
                ByRegion(get_region_probability(ds, pm.particles[i].x),
                         samples[i][1]),
                TryCell(acc.ms, pm.particles[i],
                    ByRegion(get_region_probability(ds, pm.particles[i].x),
                             samples[i][1]),
                    catching_config, samples[i][2]))
        Loop(i, acc) ==
            IF i > Len(pm.particles) THEN acc
            ELSE Loop(IF i \in Turn(i, acc).queued THEN i + 2 ELSE i + 1,
                      Turn(i, acc))
    IN  Loop(1, [ms |-> ms, queued |-> {}, entries |-> <<>>])

\* the loop of process_particle_catching over the copy get_particles()
\* returns: the grids change, the caught are queued, the list is not touched
capture_loop(pm, ds, ms, catching_config, samples) ==
    LET RECURSIVE Loop(_, _)
        Loop(i, acc) ==
            IF i > Len(pm.particles) THEN acc
            ELSE Loop(i + 1,
                   CatchOne(acc, i, pm.particles[i],
                       get_region_probability(ds, pm.particles[i].x),
                       ByRegion(get_region_probability(ds, pm.particles[i].x),
                                samples[i][1]),
                       TryCell(acc.ms, pm.particles[i],
                           ByRegion(get_region_probability(ds, pm.particles[i].x),
                                    samples[i][1]),
                           catching_config, samples[i][2])))
    IN  Loop(1, [ms |-> ms, queued |-> {}, entries |-> <<>>])

process_particle_catching(pm, ds, ms, catching_config, samples) ==
    RemoveCaught(pm, capture_loop(pm, ds, ms, catching_config, samples))

\* the history of a tick that has not happened
NoTick == [spawned |-> 0, entries |-> <<>>, before_decay |-> <<>>, expired |-> 0]

\* the particles a tick holds once the spawner has decided; the ones it
\* creates are stamped with the number of the tick
spawn_phase(app) ==
    LET decision == should_spawn(app.spawner)
    IN  [spawner |-> decision.sp, ret |-> decision.ret,
         particle_manager |->
            IF decision.ret = "True"
            THEN [spawn_multiple_particles(app.particle_manager,
                      get_position(decision.sp)[1], get_position(decision.sp)[2],
                      decision.sp.spawn_count,
                      app.current_config.particles.velocity)
                  EXCEPT !.particles =
                      [i \in 1..Len(@) |->
                          IF i > Len(app.particle_manager.particles)
                          THEN [@[i] EXCEPT !.born = app.step_counter + 1]
                          ELSE @[i]]]
            ELSE app.particle_manager]

\* perform_step: moves[i] and samples[i] are the random values drawn for the
\* i-th particle of the list after the spawn.  A ZeroDivisionError raised by
\* should_spawn() ends the handler where it is.
\* the end of perform_step: the decay, and the history of the tick
FinishStep(app, spawn, caught, expiry) ==
    [app |-> [app EXCEPT !.step_counter = @ + 1,
                         !.spawner = spawn.spawner,
                         !.particle_manager = expiry.pm,
                         !.mask_system =
                             apply_decay(caught.mask_system,
                                 app.current_config.step_function.decay_rate,
                                 app.current_config.step_function.saturation_threshold)],
     log |-> [spawned |-> Len(spawn.particle_manager.particles)
                             - Len(app.particle_manager.particles),
              entries |-> caught.entries,
              before_decay |-> caught.mask_system.mask_grid,
              expired |-> expiry.ret]]

\* remove_expired_particles, after the catching
CatchAndExpire(app, spawn, caught) ==
    FinishStep(app, spawn, caught, remove_expired_particles(caught.particle_manager))

\* perform_step after the spawn: move_all_particles, then the catching
MoveAndCatch(app, spawn, moves, samples) ==
    IF spawn.ret = "ZeroDivisionError"
    THEN [app |-> [app EXCEPT !.step_counter = @ + 1, !.spawner = spawn.spawner],
          log |-> NoTick]
    ELSE CatchAndExpire(app, spawn,
             process_particle_catching(
                 move_all_particles(spawn.particle_manager, moves),
                 app.dividers, app.mask_system, app.current_config.catching,
                 samples))

perform_step(app, moves, samples) ==
    MoveAndCatch(app, spawn_phase(app), moves, samples)

\* clear_simulation
clear_simulation(app) ==
    [app EXCEPT !.particle_manager = clear_all_particles(@),
                !.mask_system = reset_mask(@),
                !.step_counter = 0,
                !.spawner = reset_step_counter(@)]

\* The stored profiles (config_manager.py), scaled down: the ellipse spans
\* 0..4 by 0..2 and the grid has one cell per lattice step.  A profile other
\* than 'default' lists in has the sections it overrides.
Sections ==
    {"ellipse", "particles", "spawner", "catching", "step_function", "system",
     "dividers"}

DefaultProfile ==
    [ellipse |-> [center_x |-> 2, center_y |-> 1, radius_x |-> 2, radius_y |-> 1],
     particles |-> [velocity |-> 1, lifetime |-> 2],
     spawner |-> [spawn_count |-> 2, spawn_interval |-> 1],
     catching |-> [probability |-> 2, radius |-> 1, exposure |-> 1],
     step_function |-> [decay_rate |-> 2, saturation_threshold |-> 3],
     system |-> [count_particles |-> TRUE, mask_resolution |-> 4,
                 grid_padding |-> 0],
     dividers |-> <<>>]

ProfileNames == {"default", "gated"}

\* lifetimes the stored default profile may give
Lifetimes == {1, 2, 3}

\* the profiles of a configuration file whose default profile gives lifetime
StoredProfiles(lifetime) ==
    [name \in ProfileNames |->
        IF name = "default"
        THEN [has |-> Sections,
              values |-> [DefaultProfile EXCEPT !.particles.lifetime = lifetime]]
        ELSE [has |-> {"spawner", "dividers"},
              values |-> [DefaultProfile EXCEPT
                             !.spawner = [spawn_count |-> 1, spawn_interval |-> 2],
                             !.dividers = <<Divider("A", 2, 2)>>]]]

get_profile(cm, profile_name) == cm[profile_name]

\* merge_profile_config: the default profile overlaid with the target's
merge_profile_config(cm, profile_name) ==
    LET default_profile == get_profile(cm, "default").values
    IN  IF profile_name = "default" THEN default_profile
        ELSE LET target == get_profile(cm, profile_name)
             IN  [sec \in Sections |-> IF sec \in target.has THEN target.values[sec]
                                       ELSE default_profile[sec]]

\* _apply_profile up to its call of self.spawner.update_position: every
\* component is rebuilt from the merged configuration; the spawner is built
\* without a position and so sits at (0, 0)
build_from_profile(cm, profile_name) ==
    LET new_config == merge_profile_config(cm, profile_name)
    IN  [spawner |-> ParticleSpawner(0, 0, new_config.spawner.spawn_count,
                                     new_config.spawner.spawn_interval),
         dividers |-> load_from_config(new_config.dividers),
         planaria_bounds |-> new_config.ellipse,
         particle_manager |-> ParticleManager(new_config),
         mask_system |-> MaskSystem(new_config),
         step_counter |-> 0,
         current_config |-> new_config,
         config_manager |-> cm]

\* _apply_profile: class ParticleSpawner defines no update_position, so the
\* call at the end of the rebuild raises AttributeError; the handler of the
\* exception applies 'default' in place of any other profile, and leaves
\* what was built in place for 'default' itself
RECURSIVE _apply_profile(_, _)
_apply_profile(app, profile_name) ==
    LET built == [build_from_profile(app.config_manager, profile_name) EXCEPT
                     !.step_counter = app.step_counter]
    IN  IF profile_name # "default" THEN _apply_profile(built, "default")
        ELSE built

\* load_selected_profile: apply, reload the widgets, clear
load_selected_profile(app, profile_name) ==
    clear_simulation(_apply_profile(app, profile_name))

\* ParticleManager.update_config: the lifetime and the ellipse are read
\* again; the particles are not touched
particle_manager_update_config(pm, config) ==
    [pm EXCEPT !.max_lifetime = config.particles.lifetime,
               !.ellipse = config.ellipse]

update_velocity(app, value) ==
    LET config == [app.current_config EXCEPT !.particles.velocity = value]
    IN  [app EXCEPT !.current_config = config,
                    !.particle_manager = particle_manager_update_config(@, config)]

update_catch_probability(app, value) ==
    [app EXCEPT !.current_config.catching.probability = value]

update_catch_radius(app, value) ==
    [app EXCEPT !.current_config.catching.radius = value]

update_catch_exposure(app, value) ==
    [app EXCEPT !.current_config.catching.exposure = value]

update_step_parameters(app, decay_rate) ==
    [app EXCEPT !.current_config.step_function.decay_rate = decay_rate]

update_spawner_parameters(app, count, interval) ==
    [app EXCEPT !.spawner = set_spawn_interval(set_spawn_count(@, count), interval),
                !.current_config.spawner =
                    [spawn_count |-> count, spawn_interval |-> interval]]

\* update_divider_parameters: a new DividerManager over the panel's list
update_divider_parameters(app, panel_dividers) ==
    [app EXCEPT !.current_config.dividers = panel_dividers,
                !.dividers = load_from_config(panel_dividers),
                !.planaria_bounds = app.current_config.ellipse]

-----------------------------------------------------------------------------
(* Values of the variables a specification does not use *)

NoCalls == [clean |-> TRUE, results |-> <<>>]

NoBounds == [center_x |-> 0, center_y |-> 0, radius_x |-> 0, radius_y |-> 0]

IdleSpawner ==
    /\ spawner = ParticleSpawner(0, 0, 1, 1)
    /\ calls = NoCalls

IdleDividers ==
    /\ dividers = <<>>
    /\ planaria_bounds = NoBounds

IdleParticle == free_particle = Particle(0, 0, 0)

\* no file has been written
NoFiles == <<>>

IdleFiles == files = NoFiles

\* no signal pending and no perform_step on the stack
NoEvents == <<>>

NoTickRunning == [phase |-> "idle"]

IdleLoop == events = NoEvents /\ tick = NoTickRunning

\* nothing handed out by an accessor
NoViews == <<>>

IdleViews == views = NoViews

IdleApp ==
    /\ particle_manager = <<>>
    /\ mask_system = <<>>
    /\ step_counter = 0
    /\ current_config = <<>>
    /\ config_manager = <<>>
    /\ catch_log = NoTick

-----------------------------------------------------------------------------
(* SpecSpawner: a ParticleSpawner driven through its public methods *)

\* positions handed to set_position and update_from_config
PosArgs == {<<0, 0>>, <<2, 1>>}

\* the 'spawner' dictionaries handed to update_from_config
SpawnerConfigs ==
    [has : {{"spawn_count"}, {"spawn_interval"},
            {"x", "y", "spawn_count", "spawn_interval"}},
     x : {1}, y : {1}, spawn_count : {0, MaxArg}, spawn_interval : {0, MaxArg}]

\* The history keeps the results of a run of should_spawn() calls made on an
\* active spawner under one interval; a run that stops being one is dropped
\* (clean = FALSE, no results) until the counter is zeroed again.
Dropped == [clean |-> FALSE, results |-> <<>>]

IntervalChanged(old, new) ==
    IF calls.clean /\ (calls.results = <<>> \/ old = new) THEN calls ELSE Dropped

InitSpawner ==
    /\ \E spawn_count \in ArgInts, spawn_interval \in ArgInts :
          spawner = ParticleSpawner(0, 0, spawn_count, spawn_interval)
    /\ calls = NoCalls
    /\ last = Call("ParticleSpawner", "None")
    /\ IdleDividers
    /\ IdleApp
    /\ IdleParticle
    /\ IdleFiles
    /\ IdleLoop
    /\ IdleViews

SpSetPosition ==
    \E pos \in PosArgs :
        /\ spawner' = spawner_set_position(spawner, pos[1], pos[2])
        /\ last' = Call("set_position", "None")
        /\ UNCHANGED <<calls, dividerVars, appVars, particleVars, fileVars, loopVars, viewVars>>

SpSetSpawnCount ==
    \E count \in ArgInts :
        /\ spawner' = set_spawn_count(spawner, count)
        /\ last' = Call("set_spawn_count", "None")
        /\ UNCHANGED <<calls, dividerVars, appVars, particleVars, fileVars, loopVars, viewVars>>

SpSetSpawnInterval ==
    \E interval \in ArgInts :
        /\ spawner' = set_spawn_interval(spawner, interval)
        /\ calls' = IntervalChanged(spawner.spawn_interval, spawner'.spawn_interval)
        /\ last' = Call("set_spawn_interval", "None")
        /\ UNCHANGED <<dividerVars, appVars, particleVars, fileVars, loopVars, viewVars>>

SpShouldSpawn ==
    /\ spawner.step_counter < MaxCalls
    /\ LET r == should_spawn(spawner)
       IN  /\ spawner' = r.sp
           /\ calls' = IF calls.clean /\ spawner.is_active
                       THEN [calls EXCEPT !.results = Append(@, r.ret)]
                       ELSE Dropped
           /\ last' = Call("should_spawn", r.ret)
    /\ UNCHANGED <<dividerVars, appVars, particleVars, fileVars, loopVars, viewVars>>

SpResetStepCounter ==
    /\ spawner' = reset_step_counter(spawner)
    /\ calls' = NoCalls
    /\ last' = Call("reset_step_counter", "None")
    /\ UNCHANGED <<dividerVars, appVars, particleVars, fileVars, loopVars, viewVars>>

SpSetActive ==
    \E active \in BOOLEAN :
        /\ spawner' = set_active(spawner, active)
        /\ last' = Call("set_active", "None")
        /\ UNCHANGED <<calls, dividerVars, appVars, particleVars, fileVars, loopVars, viewVars>>

SpForceSpawn ==
    /\ LET r == force_spawn(spawner)
       IN  /\ spawner' = r.sp
           /\ calls' = IF r.ret = "True" THEN NoCalls ELSE calls
           /\ last' = Call("force_spawn", r.ret)
    /\ UNCHANGED <<dividerVars, appVars, particleVars, fileVars, loopVars, viewVars>>

SpUpdateFromConfig ==
    \E cfg \in SpawnerConfigs :
        /\ spawner' = spawner_update_from_config(spawner, cfg)
        /\ calls' = IntervalChanged(spawner.spawn_interval, spawner'.spawn_interval)
        /\ last' = Call("update_from_config", "None")
        /\ UNCHANGED <<dividerVars, appVars, particleVars, fileVars, loopVars, viewVars>>

\* spawner.get_next_spawn_steps(); the record of the call keeps the number
\* returned in val
SpGetNextSpawnSteps ==
    /\ last' = [Call("get_next_spawn_steps", get_next_spawn_steps(spawner).raised)
                   EXCEPT !.val = get_next_spawn_steps(spawner).ret]
    /\ UNCHANGED <<spawnerVars, dividerVars, appVars, particleVars, fileVars,
                   loopVars, viewVars>>

NextSpawner ==
    \/ SpGetNextSpawnSteps
    \/ SpSetPosition
    \/ SpSetSpawnCount
    \/ SpSetSpawnInterval
    \/ SpShouldSpawn
    \/ SpResetStepCounter
    \/ SpSetActive
    \/ SpForceSpawn
    \/ SpUpdateFromConfig

SpecSpawner == InitSpawner /\ [][NextSpawner]_vars

-----------------------------------------------------------------------------
(* SpecDivider: a DividerManager driven through its public methods.  The   *)
(* ellipse is the small one of Spec: x in [0, 4]; probabilities are in     *)
(* units of 1/ProbScale.                                                   *)

DivNames == {"A", "B"}

\* positions handed to add_divider: inside the bounds, and 5 outside them
DivXs == {1, 2, 3, 5}

\* probabilities handed to add_divider: two valid ones and one above 1
DivProbs == {1, 2, ProbScale + 1}

\* probabilities handed to set_probability and update_from_dict
ProbArgs == {0 - 1, 2, ProbScale + 1}

\* the dictionaries handed to update_from_dict
DividerDicts ==
    [has : {{"x"}, {"probability"}, {"x", "probability"}},
     x : {2}, probability : {0 - 1, ProbScale + 1}]

\* the ellipses handed to the constructor and to update_planaria_bounds
BoundsArgs ==
    {[center_x |-> 2, center_y |-> 1, radius_x |-> 2, radius_y |-> 1],
     [center_x |-> 3, center_y |-> 1, radius_x |-> 1, radius_y |-> 1]}

\* the 'dividers' lists of the configurations loaded: empty, ascending,
\* descending, one name twice, one position outside the ellipse, one
\* probability below 0
DividerConfigLists ==
    {<<>>,
     <<Divider("B", 2, 0 - 1)>>,
     <<Divider("A", 1, 1), Divider("B", 3, 2)>>,
     <<Divider("B", 3, 2), Divider("A", 1, 1)>>,
     <<Divider("A", 1, 1), Divider("A", 3, 2)>>,
     <<Divider("A", 5, 1)>>}

\* DividerManager.__init__
InitDivider ==
    /\ \E bounds \in BoundsArgs, cfgs \in DividerConfigLists :
          /\ planaria_bounds = bounds
          /\ dividers = load_from_config(cfgs)
    /\ last = Call("DividerManager", "None")
    /\ IdleSpawner
    /\ IdleApp
    /\ IdleParticle
    /\ IdleFiles
    /\ IdleLoop
    /\ IdleViews

DvLoadFromConfig ==
    \E cfgs \in DividerConfigLists :
        /\ dividers' = load_from_config(cfgs)
        /\ last' = Call("load_from_config", "None")
        /\ UNCHANGED <<planaria_bounds, spawnerVars, appVars, particleVars, fileVars, loopVars, viewVars>>

DvAddDivider ==
    /\ Len(dividers) <= MaxDividers
    /\ \E name \in DivNames, position \in DivXs, probability \in DivProbs :
          LET r == add_divider(dividers, planaria_bounds, name, position, probability)
          IN  /\ dividers' = r.dividers
              /\ last' = [Call("add_divider", r.ret) EXCEPT
                             !.name = name, !.x = position, !.val = probability]
    /\ UNCHANGED <<planaria_bounds, spawnerVars, appVars, particleVars, fileVars, loopVars, viewVars>>

DvRemoveDivider ==
    \E name \in DivNames :
        LET r == remove_divider(dividers, name)
        IN  /\ dividers' = r.dividers
            /\ last' = [Call("remove_divider", r.ret) EXCEPT !.name = name]
            /\ UNCHANGED <<planaria_bounds, spawnerVars, appVars, particleVars, fileVars, loopVars, viewVars>>

DvRenameDivider ==
    \E old_name \in DivNames, new_name \in DivNames :
        LET r == rename_divider(dividers, old_name, new_name)
        IN  /\ dividers' = r.dividers
            /\ last' = [Call("rename_divider", r.ret) EXCEPT !.name = new_name]
            /\ UNCHANGED <<planaria_bounds, spawnerVars, appVars, particleVars, fileVars, loopVars, viewVars>>

DvUpdatePlanariaBounds ==
    \E bounds \in BoundsArgs :
        /\ planaria_bounds' = bounds
        /\ dividers' = update_planaria_bounds(dividers, bounds)
        /\ last' = [Call("update_planaria_bounds", "None") EXCEPT
                       !.val = Len(dividers) - Len(update_planaria_bounds(dividers, bounds))]
        /\ UNCHANGED <<spawnerVars, appVars, particleVars, fileVars, loopVars, viewVars>>

\* get_divider_by_name(name).set_probability(probability)
DvSetProbability ==
    \E name \in DivNames, probability \in ProbArgs :
        LET i == get_divider_by_name(dividers, name)
        IN  /\ i # 0
            /\ dividers' = [dividers EXCEPT ![i] = set_probability(@, probability)]
            /\ last' = [Call("set_probability", "None") EXCEPT
                           !.name = name, !.val = probability]
            /\ UNCHANGED <<planaria_bounds, spawnerVars, appVars, particleVars, fileVars, loopVars, viewVars>>

\* get_divider_by_name(name).update_from_dict(config_dict)
DvUpdateFromDict ==
    \E name \in DivNames, config_dict \in DividerDicts :
        LET i == get_divider_by_name(dividers, name)
        IN  /\ i # 0
            /\ dividers' = [dividers EXCEPT ![i] = update_from_dict(@, config_dict)]
            /\ last' = [Call("update_from_dict", "None") EXCEPT !.name = name]
            /\ UNCHANGED <<planaria_bounds, spawnerVars, appVars, particleVars, fileVars, loopVars, viewVars>>

DvClearAllDividers ==
    /\ dividers' = clear_all_dividers(dividers).dividers
    /\ last' = [Call("clear_all_dividers", "None") EXCEPT
                   !.val = clear_all_dividers(dividers).ret]
    /\ UNCHANGED <<planaria_bounds, spawnerVars, appVars, particleVars, fileVars, loopVars, viewVars>>

NextDivider ==
    \/ DvLoadFromConfig
    \/ DvAddDivider
    \/ DvRemoveDivider
    \/ DvRenameDivider
    \/ DvUpdatePlanariaBounds
    \/ DvClearAllDividers
    \/ DvSetProbability
    \/ DvUpdateFromDict

SpecDivider == InitDivider /\ [][NextDivider]_vars

-----------------------------------------------------------------------------
(* SpecParticle: one Particle driven through move and reflect_at_boundary; *)
(* SpecParticles: a ParticleManager driven through its public methods.     *)
(* Both start from any position and draw any displacement.                 *)

\* moves explored on one particle
MaxMoves == 2

\* where a particle is created: outside, inside, on the edge, far outside
StartPoints == {<<0, 0>>, <<2, 1>>, <<4, 1>>, <<6, 3>>}

\* (vx, vy) of a particle built with a velocity
Velocities == {<<0, 0>>, <<1, 0>>, <<0 - 1, 1>>, <<2, 2>>}

MovementModes == {"straight", "diffusion"}

\* displacements a move draws, small and large
WideDisplacements == {<<0, 0>>, <<1, 0>>, <<0 - 3, 2>>, <<0, 0 - 1>>}

\* bounce as a fraction: 0, 1/2 (the default), 1
Bounces == {<<0, 1>>, <<1, 2>>, <<1, 1>>}

\* the ellipses a manager is built over and a particle is reflected at
ParticleEllipses ==
    {[center_x |-> 2, center_y |-> 1, radius_x |-> 2, radius_y |-> 1],
     [center_x |-> 3, center_y |-> 2, radius_x |-> 3, radius_y |-> 2]}

InitParticle ==
    /\ \E pt \in StartPoints, v \in Velocities, mode \in MovementModes :
          free_particle = ParticleWithVelocity(pt[1], pt[2], v[1], v[2], mode)
    /\ last = Call("Particle", "None")
    /\ IdleFiles
    /\ IdleLoop
    /\ IdleViews
    /\ IdleSpawner
    /\ IdleDividers
    /\ IdleApp

InitParticles ==
    /\ IdleParticle
    /\ IdleFiles
    /\ IdleLoop
    /\ IdleViews
    /\ \E e \in ParticleEllipses, lifetime \in 1..MaxMoves :
          particle_manager =
              ParticleManager([DefaultProfile EXCEPT !.ellipse = e,
                                                     !.particles.lifetime = lifetime])
    /\ mask_system = <<>>
    /\ step_counter = 0
    /\ current_config = <<>>
    /\ config_manager = <<>>
    /\ catch_log = NoTick
    /\ last = Call("ParticleManager", "None")
    /\ IdleSpawner
    /\ IdleDividers

\* particle.move()
PtMove ==
    /\ free_particle.age < MaxMoves
    /\ \E d \in WideDisplacements : free_particle' = move(free_particle, d)
    /\ last' = Call("move", "None")
    /\ UNCHANGED <<spawnerVars, dividerVars, appVars, fileVars, loopVars, viewVars>>

\* particle.reflect_at_boundary(center_x, center_y, radius_x, radius_y, bounce);
\* the record of the call keeps the bounce in x / val
PtReflectAtBoundary ==
    /\ free_particle.vden = 1
    /\ \E e \in ParticleEllipses, bounce \in Bounces :
          /\ free_particle' = reflect_with_velocity(free_particle, e, bounce)
          /\ planaria_bounds' = e
          /\ last' = [Call("reflect_at_boundary", "None") EXCEPT
                         !.x = bounce[1], !.val = bounce[2]]
    /\ UNCHANGED <<spawnerVars, dividers, appVars, fileVars, loopVars, viewVars>>

\* particle_manager.spawn_multiple_particles(x, y, count)
PmSpawnMultipleParticles ==
    /\ \E pt \in StartPoints, count \in 0..MaxParticles :
          /\ Len(particle_manager.particles) + count <= MaxParticles
          /\ particle_manager' =
                spawn_multiple_particles(particle_manager, pt[1], pt[2], count,
                                         DefaultProfile.particles.velocity)
          /\ last' = [Call("spawn_multiple_particles", "None") EXCEPT !.val = count]
    /\ UNCHANGED <<spawnerVars, dividerVars, mask_system, step_counter,
                   current_config, config_manager, catch_log, particleVars, fileVars, loopVars, viewVars>>

\* particle_manager.move_all_particles(); the record of the call keeps in
\* val the number of particles the move left on or outside the ellipse
PmMoveAllParticles ==
    /\ \A i \in 1..Len(particle_manager.particles) :
          particle_manager.particles[i].age < MaxMoves
    /\ \E moves \in [1..Len(particle_manager.particles) -> WideDisplacements] :
          /\ particle_manager' = move_all_particles(particle_manager, moves)
          /\ last' = [Call("move_all_particles", "None") EXCEPT
                !.val = Cardinality({i \in 1..Len(particle_manager.particles) :
                    LET q == move(particle_manager.particles[i], moves[i])
                    IN  EllipseLhs(particle_manager.ellipse, q.x, q.y)
                            >= EllipseRhs(particle_manager.ellipse)})]
    /\ UNCHANGED <<spawnerVars, dividerVars, mask_system, step_counter,
                   current_config, config_manager, catch_log, particleVars, fileVars, loopVars, viewVars>>

\* particle_manager.remove_expired_particles()
PmRemoveExpiredParticles ==
    /\ particle_manager' = remove_expired_particles(particle_manager).pm
    /\ last' = [Call("remove_expired_particles", "None") EXCEPT
                   !.val = remove_expired_particles(particle_manager).ret]
    /\ UNCHANGED <<spawnerVars, dividerVars, mask_system, step_counter,
                   current_config, config_manager, catch_log, particleVars, fileVars, loopVars, viewVars>>

\* particle_manager.clear_all_particles()
PmClearAllParticles ==
    /\ particle_manager' = clear_all_particles(particle_manager)
    /\ last' = Call("clear_all_particles", "None")
    /\ UNCHANGED <<spawnerVars, dividerVars, mask_system, step_counter,
                   current_config, config_manager, catch_log, particleVars, fileVars, loopVars, viewVars>>

NextParticle ==
    \/ PtMove
    \/ PtReflectAtBoundary

SpecParticle == InitParticle /\ [][NextParticle]_vars

NextParticles ==
    \/ PmSpawnMultipleParticles
    \/ PmMoveAllParticles
    \/ PmRemoveExpiredParticles
    \/ PmClearAllParticles

SpecParticles == InitParticles /\ [][NextParticles]_vars

-----------------------------------------------------------------------------
(* SpecMask: a MaskSystem built from any configuration, reconfigured, and  *)
(* asked to convert points to cells and cells back to points.              *)

\* largest mask_resolution of a configuration
MaxResolution == 4

\* largest grid_padding of a configuration
MaxPadding == 1

GridConfigs ==
    {[DefaultProfile EXCEPT !.ellipse = e,
                            !.system = [@ EXCEPT !.mask_resolution = r,
                                                 !.grid_padding = g]] :
        e \in ParticleEllipses \cup
              {[center_x |-> 3, center_y |-> 1, radius_x |-> 3, radius_y |-> 1]},
        r \in 1..MaxResolution, g \in 0..MaxPadding}

InitMask ==
    /\ \E config \in GridConfigs : mask_system = MaskSystem(config)
    /\ particle_manager = <<>>
    /\ step_counter = 0
    /\ current_config = <<>>
    /\ config_manager = <<>>
    /\ catch_log = NoTick
    /\ last = Call("MaskSystem", "None")
    /\ IdleSpawner
    /\ IdleDividers
    /\ IdleParticle
    /\ IdleFiles
    /\ IdleLoop
    /\ IdleViews

\* mask_system.update_config(config)
MsUpdateConfig ==
    /\ \E config \in GridConfigs :
          mask_system' = mask_system_update_config(mask_system, config)
    /\ last' = Call("update_config", "None")
    /\ UNCHANGED <<spawnerVars, dividerVars, particle_manager, step_counter,
                   current_config, config_manager, catch_log, particleVars, fileVars, loopVars, viewVars>>

\* mask_system.coord_to_grid(x, y), for points in and around the bounding
\* box; the record of the call keeps the point in x and the cell in val
MsCoordToGrid ==
    /\ \E x \in (mask_system.x_min - 1)..(mask_system.x_max + 1),
          y \in (mask_system.y_min - 1)..(mask_system.y_max + 1) :
          last' = [Call("coord_to_grid", "tuple") EXCEPT
                      !.x = <<x, y>>, !.val = coord_to_grid(mask_system, x, y)]
    /\ UNCHANGED <<spawnerVars, dividerVars, appVars, particleVars, fileVars, loopVars, viewVars>>

\* mask_system.grid_to_coord(grid_y, grid_x) on the cell coord_to_grid has
\* just returned; the record keeps the original point in x and the point
\* returned, times the grid dimensions, in val
MsGridToCoord ==
    /\ last.op = "coord_to_grid"
    /\ last.val # <<0 - 1, 0 - 1>>
    /\ last' = [Call("grid_to_coord",
                     grid_to_coord_scaled(mask_system, last.val[1], last.val[2]).ret)
                EXCEPT !.x = last.x,
                       !.val = grid_to_coord_scaled(mask_system,
                                                    last.val[1], last.val[2]).val]
    /\ UNCHANGED <<spawnerVars, dividerVars, appVars, particleVars, fileVars, loopVars, viewVars>>

NextMask ==
    \/ MsUpdateConfig
    \/ MsCoordToGrid
    \/ MsGridToCoord

SpecMask == InitMask /\ [][NextMask]_vars

-----------------------------------------------------------------------------
(* SpecExposure: a MaskSystem whose grids are written: captures, decay,    *)
(* reset and reconfiguration.  SpecStore: a MaskSystem saved and loaded.   *)

\* captures counted in one cell of the count grid
MaxCaptures == 1

ExposureConfigs ==
    {[DefaultProfile EXCEPT !.ellipse = e,
                            !.system = [@ EXCEPT !.mask_resolution = r,
                                                 !.count_particles = count]] :
        e \in ParticleEllipses, r \in {2, 4}, count \in BOOLEAN}

\* catch radius of a capture
CatchRadii == {1, 2}

\* what np.random.random() returns: below, at and above the probability
ExposureSamples == {0, DefaultProfile.catching.probability, ProbScale - 1}

\* decay rates: none, a half, and one above 1
ExposureDecayRates == {0, 2, ProbScale + 1}

\* saturation thresholds, in stamps
Thresholds == {1, 3}

InitExposure ==
    /\ \E config \in ExposureConfigs : mask_system = MaskSystem(config)
    /\ IdleFiles
    /\ IdleLoop
    /\ IdleViews
    /\ particle_manager = <<>>
    /\ step_counter = 0
    /\ current_config = <<>>
    /\ config_manager = <<>>
    /\ catch_log = NoTick
    /\ last = Call("MaskSystem", "None")
    /\ IdleSpawner
    /\ IdleDividers
    /\ IdleParticle

\* mask_system.try_catch_particle_by_cell(x, y, catch_params) on a grid that
\* holds no exposure; the record of
\* the call keeps the point in x, <<radius, sample, draws>> in val and in
\* name whether the point was outside, the draw missed or it hit
ExTryCatchParticleByCell ==
    /\ \A c \in DOMAIN mask_system.mask_grid : mask_system.mask_grid[c] = 0
    /\ \A c \in DOMAIN mask_system.particle_count_mask :
          mask_system.particle_count_mask[c] < MaxCaptures
    /\ \E x \in mask_system.x_min..mask_system.x_max,
          y \in mask_system.y_min..mask_system.y_max,
          radius \in CatchRadii, sample \in ExposureSamples :
          LET caught == try_catch_particle_by_cell(mask_system, x, y,
                            [DefaultProfile.catching EXCEPT !.radius = radius], sample)
          IN  /\ mask_system' = caught.ms
              /\ last' = [Call("try_catch_particle_by_cell",
                                IF caught.raised = "None" THEN Bool(caught.ret)
                                ELSE caught.raised) EXCEPT
                             !.name = caught.cell, !.x = <<x, y>>,
                             !.val = <<radius, sample, caught.draws>>]
    /\ UNCHANGED <<spawnerVars, dividerVars, particle_manager, step_counter,
                   current_config, config_manager, catch_log, particleVars, fileVars, loopVars, viewVars>>

\* mask_system.apply_decay(decay_rate, saturation_threshold), while the
\* products stay whole numbers of the unit
ExApplyDecay ==
    /\ \E decay_rate \in ExposureDecayRates, saturation_threshold \in Thresholds :
          /\ \A c \in DOMAIN mask_system.mask_grid :
                (mask_system.mask_grid[c] * Abs(ProbScale - decay_rate)) % ProbScale = 0
          /\ mask_system' = apply_decay(mask_system, decay_rate, saturation_threshold)
          /\ last' = [Call("apply_decay", "None") EXCEPT
                         !.x = decay_rate, !.val = saturation_threshold]
    /\ UNCHANGED <<spawnerVars, dividerVars, particle_manager, step_counter,
                   current_config, config_manager, catch_log, particleVars, fileVars, loopVars, viewVars>>

\* mask_system.reset_mask()
ExResetMask ==
    /\ mask_system' = reset_mask(mask_system)
    /\ last' = Call("reset_mask", "None")
    /\ UNCHANGED <<spawnerVars, dividerVars, particle_manager, step_counter,
                   current_config, config_manager, catch_log, particleVars, fileVars, loopVars, viewVars>>

\* mask_system.update_config(config)
ExUpdateConfig ==
    /\ \E config \in ExposureConfigs :
          mask_system' = mask_system_update_config(mask_system, config)
    /\ last' = Call("update_config", "None")
    /\ UNCHANGED <<spawnerVars, dividerVars, particle_manager, step_counter,
                   current_config, config_manager, catch_log, particleVars, fileVars, loopVars, viewVars>>

NextExposure ==
    \/ ExTryCatchParticleByCell
    \/ ExApplyDecay
    \/ ExResetMask
    \/ ExUpdateConfig

SpecExposure == InitExposure /\ [][NextExposure]_vars

\* files written at any time
MaxFiles == 1

Paths == {"mask", "mask.npy"}

\* one ellipse, two resolutions: grids of two shapes
StoreConfigs ==
    {[DefaultProfile EXCEPT !.system = [@ EXCEPT !.mask_resolution = r]] : r \in {2, 4}}

InitStore ==
    /\ \E config \in StoreConfigs : mask_system = MaskSystem(config)
    /\ files = NoFiles
    /\ IdleLoop
    /\ IdleViews
    /\ particle_manager = <<>>
    /\ step_counter = 0
    /\ current_config = <<>>
    /\ config_manager = <<>>
    /\ catch_log = NoTick
    /\ last = Call("MaskSystem", "None")
    /\ IdleSpawner
    /\ IdleDividers
    /\ IdleParticle

\* a capture: try_catch_particle_by_cell with a sample that hits
StTryCatchParticleByCell ==
    /\ \A c \in DOMAIN mask_system.mask_grid : mask_system.mask_grid[c] = 0
    /\ \A c \in DOMAIN mask_system.particle_count_mask :
          mask_system.particle_count_mask[c] < MaxCaptures
    /\ \E x \in mask_system.x_min..mask_system.x_max,
          y \in mask_system.y_min..mask_system.y_max :
          LET caught == try_catch_particle_by_cell(mask_system, x, y,
                            DefaultProfile.catching, 0)
          IN  /\ mask_system' = caught.ms
              /\ last' = [Call("try_catch_particle_by_cell", Bool(caught.ret)) EXCEPT
                             !.name = caught.cell]
    /\ UNCHANGED <<spawnerVars, dividerVars, particle_manager, step_counter,
                   current_config, config_manager, catch_log, particleVars, fileVars, loopVars, viewVars>>

\* mask_system.update_config(config)
StUpdateConfig ==
    /\ \E config \in StoreConfigs :
          mask_system' = mask_system_update_config(mask_system, config)
    /\ last' = Call("update_config", "None")
    /\ UNCHANGED <<spawnerVars, dividerVars, particle_manager, step_counter,
                   current_config, config_manager, catch_log, particleVars, fileVars, loopVars, viewVars>>

\* mask_system.save_mask(filepath)
StSaveMask ==
    /\ \E filepath \in Paths :
          /\ Cardinality(DOMAIN files \cup {NpyPath(filepath)}) <= MaxFiles
          /\ files' = save_mask(mask_system, files, filepath).fs
          /\ last' = [Call("save_mask", Bool(save_mask(mask_system, files, filepath).ret))
                      EXCEPT !.name = filepath]
    /\ UNCHANGED <<spawnerVars, dividerVars, appVars, particleVars, loopVars,
                   viewVars>>

\* mask_system.load_mask(filepath)
StLoadMask ==
    /\ \E filepath \in Paths :
          /\ mask_system' = load_mask(mask_system, files, filepath).ms
          /\ last' = [Call("load_mask", Bool(load_mask(mask_system, files, filepath).ret))
                      EXCEPT !.name = filepath]
    /\ UNCHANGED <<spawnerVars, dividerVars, particle_manager, step_counter,
                   current_config, config_manager, catch_log, particleVars, fileVars, loopVars, viewVars>>

NextStore ==
    \/ StTryCatchParticleByCell
    \/ StUpdateConfig
    \/ StSaveMask
    \/ StLoadMask

SpecStore == InitStore /\ [][NextStore]_vars

-----------------------------------------------------------------------------
(* Spec: the MaskPainter application.  The timer or the Step button calls  *)
(* perform_step, the buttons and sliders call the other handlers.          *)

\* displacements a move draws (np.random.normal, rounded to the lattice)
Displacements == {<<0 - 1, 0>>, <<1, 0>>}

\* values np.random.random() returns, in units of 1/ProbScale
Samples == {0, ProbScale - 1}

\* values the sliders hand to the handlers
DecayRates == {0, 2}

\* <<count, interval>> pairs of the spawner panel
SpawnerPanel == {<<1, 2>>, <<2, 1>>}

\* lists the divider panel holds
PanelDividers == {<<>>, <<Divider("A", 2, 2)>>}

App ==
    [spawner |-> spawner, dividers |-> dividers,
     planaria_bounds |-> planaria_bounds, particle_manager |-> particle_manager,
     mask_system |-> mask_system, step_counter |-> step_counter,
     current_config |-> current_config, config_manager |-> config_manager]

SetApp(app) ==
    /\ spawner' = app.spawner
    /\ dividers' = app.dividers
    /\ planaria_bounds' = app.planaria_bounds
    /\ particle_manager' = app.particle_manager
    /\ mask_system' = app.mask_system
    /\ step_counter' = app.step_counter
    /\ current_config' = app.current_config
    /\ config_manager' = app.config_manager

\* MaskPainter.__init__: the selected profile is loaded
Init ==
    /\ \E profile_name \in ProfileNames, lifetime \in Lifetimes :
          LET cm == StoredProfiles(lifetime)
              app == load_selected_profile(build_from_profile(cm, "default"),
                                           profile_name)
          IN  /\ config_manager = cm
              /\ spawner = app.spawner
              /\ dividers = app.dividers
              /\ planaria_bounds = app.planaria_bounds
              /\ particle_manager = app.particle_manager
              /\ mask_system = app.mask_system
              /\ step_counter = app.step_counter
              /\ current_config = app.current_config
    /\ calls = NoCalls
    /\ catch_log = NoTick
    /\ IdleParticle
    /\ IdleFiles
    /\ IdleLoop
    /\ IdleViews
    /\ last = Call("load_selected_profile", "None")

\* the application and the history a tick leaves
Ticked(r) ==
    /\ SetApp(r.app)
    /\ catch_log' = r.log

PerformStep ==
    /\ step_counter < MaxTicks
    /\ LET n == Len(spawn_phase(App).particle_manager.particles)
       IN  /\ n <= MaxParticles
           /\ \E moves \in [1..n -> Displacements],
                 samples \in [1..n -> Samples \X Samples] :
                 Ticked(perform_step(App,
                            normal_draws(spawn_phase(App).particle_manager.particles,
                                         moves),
                            samples))
    /\ last' = Call("perform_step", "None")
    /\ UNCHANGED <<calls, particleVars, fileVars, loopVars, viewVars>>

ClearSimulation ==
    /\ SetApp(clear_simulation(App))
    /\ last' = [Call("clear_simulation", "None") EXCEPT
                    !.x = step_counter, !.val = Len(particle_manager.particles)]
    /\ catch_log' = NoTick
    /\ UNCHANGED <<calls, particleVars, fileVars, loopVars, viewVars>>

LoadSelectedProfile ==
    /\ \E profile_name \in ProfileNames :
          /\ SetApp(load_selected_profile(App, profile_name))
          /\ last' = [Call("load_selected_profile", "None") EXCEPT !.name = profile_name]
    /\ catch_log' = NoTick
    /\ UNCHANGED <<calls, particleVars, fileVars, loopVars, viewVars>>

UpdateStepParameters ==
    /\ \E decay_rate \in DecayRates : SetApp(update_step_parameters(App, decay_rate))
    /\ last' = Call("update_step_parameters", "None")
    /\ catch_log' = NoTick
    /\ UNCHANGED <<calls, particleVars, fileVars, loopVars, viewVars>>

UpdateSpawnerParameters ==
    /\ \E panel \in SpawnerPanel :
          SetApp(update_spawner_parameters(App, panel[1], panel[2]))
    /\ last' = Call("update_spawner_parameters", "None")
    /\ catch_log' = NoTick
    /\ UNCHANGED <<calls, particleVars, fileVars, loopVars, viewVars>>

UpdateDividerParameters ==
    /\ \E panel_dividers \in PanelDividers :
          SetApp(update_divider_parameters(App, panel_dividers))
    /\ last' = Call("update_divider_parameters", "None")
    /\ catch_log' = NoTick
    /\ UNCHANGED <<calls, particleVars, fileVars, loopVars, viewVars>>

Next ==
    \/ PerformStep
    \/ ClearSimulation
    \/ LoadSelectedProfile
    \/ UpdateStepParameters
    \/ UpdateSpawnerParameters
    \/ UpdateDividerParameters

Spec == Init /\ [][Next]_vars

-----------------------------------------------------------------------------
(* SpecPanel: the application driven through every slider handler of the   *)
(* control panel and through ticks.  At most MaxChanged parameters differ  *)
(* from the loaded profile at a time.                                      *)

MaxChanged == 1

\* what the sliders offer next to the values of the profile
PanelVelocities == {0, 4}

PanelProbabilities == {0, ProbScale}

PanelRadii == {2}

PanelExposures == {2}

\* the parameters the panel can change
PanelLeaves ==
    {"velocity", "probability", "radius", "exposure", "decay_rate", "spawner",
     "dividers"}

Leaf(config, leaf) ==
    CASE leaf = "velocity" -> config.particles.velocity
      [] leaf = "probability" -> config.catching.probability
      [] leaf = "radius" -> config.catching.radius
      [] leaf = "exposure" -> config.catching.exposure
      [] leaf = "decay_rate" -> config.step_function.decay_rate
      [] leaf = "spawner" -> config.spawner
      [] leaf = "dividers" -> config.dividers

\* the parameters of the application that differ from the loaded profile
ChangedLeaves(app) ==
    {leaf \in PanelLeaves :
        Leaf(app.current_config, leaf)
            # Leaf(merge_profile_config(app.config_manager, "default"), leaf)}

\* a handler's step: the application it leaves keeps within the bound
PanelStep(app, op, value) ==
    /\ Cardinality(ChangedLeaves(app)) <= MaxChanged
    /\ app # App
    /\ SetApp(app)
    /\ last' = [Call(op, "None") EXCEPT !.val = value]
    /\ catch_log' = NoTick
    /\ UNCHANGED <<calls, particleVars, fileVars, loopVars, viewVars>>

\* the stored profiles of the panel's runs: particles outlive the run and
\* the spawner creates one per tick
PanelProfiles ==
    [StoredProfiles(MaxTicks + 1) EXCEPT
        !["default"].values.spawner.spawn_count = 1]

InitPanel ==
    /\ LET cm == PanelProfiles
           app == load_selected_profile(build_from_profile(cm, "default"), "default")
       IN  /\ config_manager = cm
           /\ spawner = app.spawner
           /\ dividers = app.dividers
           /\ planaria_bounds = app.planaria_bounds
           /\ particle_manager = app.particle_manager
           /\ mask_system = app.mask_system
           /\ step_counter = app.step_counter
           /\ current_config = app.current_config
    /\ calls = NoCalls
    /\ catch_log = NoTick
    /\ IdleParticle
    /\ IdleFiles
    /\ IdleLoop
    /\ IdleViews
    /\ last = Call("load_selected_profile", "None")

PnUpdateVelocity ==
    \E value \in PanelVelocities :
        PanelStep(update_velocity(App, value), "update_velocity", value)

PnUpdateCatchProbability ==
    \E value \in PanelProbabilities :
        PanelStep(update_catch_probability(App, value), "update_catch_probability", value)

PnUpdateCatchRadius ==
    \E value \in PanelRadii :
        PanelStep(update_catch_radius(App, value), "update_catch_radius", value)

PnUpdateCatchExposure ==
    \E value \in PanelExposures :
        PanelStep(update_catch_exposure(App, value), "update_catch_exposure", value)

PnUpdateStepParameters ==
    \E decay_rate \in DecayRates :
        PanelStep(update_step_parameters(App, decay_rate), "update_step_parameters",
                  decay_rate)

PnUpdateSpawnerParameters ==
    \E panel \in SpawnerPanel :
        PanelStep(update_spawner_parameters(App, panel[1], panel[2]),
                  "update_spawner_parameters", panel)

PnUpdateDividerParameters ==
    \E panel_dividers \in PanelDividers :
        PanelStep(update_divider_parameters(App, panel_dividers),
                  "update_divider_parameters", panel_dividers)

NextPanel ==
    \/ PerformStep
    \/ PnUpdateVelocity
    \/ PnUpdateCatchProbability
    \/ PnUpdateCatchRadius
    \/ PnUpdateCatchExposure
    \/ PnUpdateStepParameters
    \/ PnUpdateSpawnerParameters
    \/ PnUpdateDividerParameters

SpecPanel == InitPanel /\ [][NextPanel]_vars

-----------------------------------------------------------------------------
(* The event loop: the signals the widgets and the auto-step timer emit    *)
(* wait in a queue; the one GUI thread takes a signal when no slot is on   *)
(* its stack and runs the slot to its end.  perform_step is broken into    *)
(* its phases, each phase one step, so that an interleaving would show.    *)

MaxPending == 2

\* step_timer.timeout and step_btn.clicked are both connected to
\* perform_step, clear_btn.clicked to clear_simulation, the divider panel
\* to update_divider_parameters
Signals ==
    {[signal |-> "timeout", value |-> <<>>],
     [signal |-> "step_clicked", value |-> <<>>],
     [signal |-> "clear_clicked", value |-> <<>>]}
    \cup {[signal |-> "dividers_changed", value |-> d] : d \in PanelDividers}

\* a plausible slip: a slot is started while another is still running, as a
\* second thread or a processEvents() within a phase would do
can_dispatch_reentrant(phase) == TRUE

\* a queued signal is delivered when control is back in the event loop
can_dispatch(phase) == phase = "idle"

InitLoop ==
    /\ LET cm == PanelProfiles
           app == load_selected_profile(build_from_profile(cm, "default"), "default")
       IN  /\ config_manager = cm
           /\ spawner = app.spawner
           /\ dividers = app.dividers
           /\ planaria_bounds = app.planaria_bounds
           /\ particle_manager = app.particle_manager
           /\ mask_system = app.mask_system
           /\ step_counter = app.step_counter
           /\ current_config = app.current_config
    /\ calls = NoCalls
    /\ catch_log = NoTick
    /\ IdleParticle
    /\ IdleFiles
    /\ IdleLoop
    /\ IdleViews
    /\ last = Call("load_selected_profile", "None")

\* the objects the window holds
AppState ==
    <<spawner, dividers, planaria_bounds, particle_manager, mask_system,
      step_counter, current_config, config_manager>>

\* what a step of the loop leaves alone
LoopKeeps == UNCHANGED <<calls, particleVars, fileVars, viewVars>>

\* the timer fires or the user acts; the signal waits for the event loop
LpPost ==
    /\ Len(events) < MaxPending
    /\ \E s \in Signals : events' = Append(events, s)
    /\ last' = Call("post", "None")
    /\ UNCHANGED <<AppState, tick, catch_log>>
    /\ LoopKeeps

Delivered(signals) ==
    /\ events # NoEvents
    /\ Head(events).signal \in signals
    /\ can_dispatch(tick.phase)
    /\ events' = Tail(events)

\* perform_step starts: "self.step_counter += 1"
LpPerformStep ==
    /\ Delivered({"timeout", "step_clicked"})
    /\ step_counter < MaxTicks
    /\ SetApp([App EXCEPT !.step_counter = @ + 1])
    /\ tick' = [phase |-> "spawn", start |-> App, by |-> Head(events).signal,
                spawned |-> 0, moves |-> <<>>, samples |-> <<>>,
                queued |-> {}, entries |-> <<>>, before_decay |-> <<>>,
                expired |-> 0]
    /\ last' = Call("perform_step", "None")
    /\ UNCHANGED catch_log
    /\ LoopKeeps

LpClearSimulation ==
    /\ Delivered({"clear_clicked"})
    /\ SetApp(clear_simulation(App))
    /\ last' = Call("clear_simulation", "None")
    /\ UNCHANGED <<tick, catch_log>>
    /\ LoopKeeps

LpUpdateDividerParameters ==
    /\ Delivered({"dividers_changed"})
    /\ SetApp(update_divider_parameters(App, Head(events).value))
    /\ last' = Call("update_divider_parameters", "None")
    /\ UNCHANGED <<tick, catch_log>>
    /\ LoopKeeps

\* a phase of the running tick: the application and the tick's record change
Phase(from, app, next_tick) ==
    /\ tick.phase = from
    /\ SetApp(app)
    /\ tick' = next_tick
    /\ last' = Call(from, "None")
    /\ UNCHANGED <<events, catch_log>>
    /\ LoopKeeps

\* "if self.spawner.should_spawn(): ... spawn_multiple_particles(...)"
Spawned(spawn) ==
    /\ Len(spawn.particle_manager.particles) <= MaxParticles
    /\ Phase("spawn",
             [App EXCEPT !.spawner = spawn.spawner,
                         !.particle_manager =
                             [spawn.particle_manager EXCEPT !.particles =
                                 [i \in 1..Len(@) |->
                                     IF i > Len(particle_manager.particles)
                                     THEN [@[i] EXCEPT !.born = step_counter]
                                     ELSE @[i]]]],
             IF spawn.ret = "ZeroDivisionError" THEN NoTickRunning
             ELSE [tick EXCEPT !.phase = "move",
                               !.spawned = Len(spawn.particle_manager.particles)
                                           - Len(particle_manager.particles)])

LpSpawn == Spawned(spawn_phase(App))

\* "self.particle_manager.move_all_particles()"
Moved(moves) ==
    Phase("move",
          [App EXCEPT !.particle_manager = move_all_particles(@, moves)],
          [tick EXCEPT !.phase = "catch", !.moves = moves])

LpMove ==
    \E draws \in [1..Len(particle_manager.particles) -> Displacements] :
        Moved(normal_draws(particle_manager.particles, draws))

\* the loop of process_particle_catching, up to "# Remove caught particles"
Looped(samples, done) ==
    Phase("catch",
          [App EXCEPT !.mask_system = done.ms],
          [tick EXCEPT !.phase = "remove", !.samples = samples,
                       !.queued = done.queued, !.entries = done.entries])

LpCaptureLoop ==
    \E samples \in [1..Len(particle_manager.particles) -> Samples \X Samples] :
        Looped(samples,
               capture_loop(particle_manager, dividers, mask_system,
                            current_config.catching, samples))

\* "for particle in particles_to_remove: remove_particle(particle)"
LpRemoveCaught ==
    Phase("remove",
          [App EXCEPT !.particle_manager = remove_particles(@, tick.queued)],
          [tick EXCEPT !.phase = "expire"])

\* "self.particle_manager.remove_expired_particles()"
Expired(expiry) ==
    Phase("expire",
          [App EXCEPT !.particle_manager = expiry.pm],
          [tick EXCEPT !.phase = "decay", !.expired = expiry.ret])

LpRemoveExpired == Expired(remove_expired_particles(particle_manager))

\* "self.mask_system.apply_decay(decay_rate, saturation_threshold)"
LpApplyDecay ==
    Phase("decay",
          [App EXCEPT !.mask_system =
              apply_decay(@, current_config.step_function.decay_rate,
                          current_config.step_function.saturation_threshold)],
          [tick EXCEPT !.phase = "show",
                       !.before_decay = mask_system.mask_grid])

\* the visualizations are redrawn from the accessors; perform_step returns
LpUpdateVisualization ==
    /\ tick.phase = "show"
    /\ tick' = NoTickRunning
    /\ catch_log' = [spawned |-> tick.spawned, entries |-> tick.entries,
                     before_decay |-> tick.before_decay,
                     expired |-> tick.expired]
    /\ last' = Call("show", "None")
    /\ UNCHANGED <<AppState, events>>
    /\ LoopKeeps

NextLoop ==
    \/ LpPost
    \/ LpPerformStep
    \/ LpClearSimulation
    \/ LpUpdateDividerParameters
    \/ LpSpawn
    \/ LpMove
    \/ LpCaptureLoop
    \/ LpRemoveCaught
    \/ LpRemoveExpired
    \/ LpApplyDecay
    \/ LpUpdateVisualization

SpecLoop == InitLoop /\ [][NextLoop]_vars

-----------------------------------------------------------------------------
(* The application with a saturation threshold that one capture reaches     *)

\* the stored profiles with a threshold of one exposure
SaturatingProfiles ==
    [PanelProfiles EXCEPT
        !["default"].values.step_function.saturation_threshold =
            DefaultProfile.catching.exposure]

InitSaturation ==
    /\ LET cm == SaturatingProfiles
           app == load_selected_profile(build_from_profile(cm, "default"), "default")
       IN  /\ config_manager = cm
           /\ spawner = app.spawner
           /\ dividers = app.dividers
           /\ planaria_bounds = app.planaria_bounds
           /\ particle_manager = app.particle_manager
           /\ mask_system = app.mask_system
           /\ step_counter = app.step_counter
           /\ current_config = app.current_config
    /\ calls = NoCalls
    /\ catch_log = NoTick
    /\ IdleParticle
    /\ IdleFiles
    /\ IdleLoop
    /\ IdleViews
    /\ last = Call("load_selected_profile", "None")

NextSaturation ==
    \/ PerformStep
    \/ ClearSimulation
    \/ LoadSelectedProfile
    \/ UpdateStepParameters
    \/ PnUpdateCatchExposure

SpecSaturation == InitSaturation /\ [][NextSaturation]_vars

-----------------------------------------------------------------------------
(* The application run for more ticks, with the parameters left alone: the *)
(* population of particles over several spawn intervals and lifetimes      *)

\* ticks of a long run, and particles held in one
MaxLongRun == 4
MaxCrowd == 4

\* spawn counts and spawn intervals of the stored default profile
SpawnCounts == {1, 2}
SpawnIntervals == {1, 2}

\* every particle draws the same step of the walk
LongRunMoves == {<<1, 0>>}

\* both mechanisms miss, or the first that draws catches
LongRunSamples == {<<ProbScale - 1, ProbScale - 1>>, <<0, 0>>}

InitPopulation ==
    /\ \E c \in SpawnCounts, k \in SpawnIntervals, lifetime \in Lifetimes :
          LET cm == [StoredProfiles(lifetime) EXCEPT
                        !["default"].values.spawner =
                            [spawn_count |-> c, spawn_interval |-> k]]
              app == load_selected_profile(build_from_profile(cm, "default"),
                                           "default")
          IN  /\ config_manager = cm
              /\ spawner = app.spawner
              /\ dividers = app.dividers
              /\ planaria_bounds = app.planaria_bounds
              /\ particle_manager = app.particle_manager
              /\ mask_system = app.mask_system
              /\ step_counter = app.step_counter
              /\ current_config = app.current_config
    /\ calls = NoCalls
    /\ catch_log = NoTick
    /\ IdleParticle
    /\ IdleFiles
    /\ IdleLoop
    /\ IdleViews
    /\ last = Call("load_selected_profile", "None")

\* perform_step, for as long as the run and the crowd stay in their bounds
PoPerformStep ==
    /\ step_counter < MaxLongRun
    /\ LET n == Len(spawn_phase(App).particle_manager.particles)
       IN  /\ n <= MaxCrowd
           /\ \E moves \in [1..n -> LongRunMoves],
                 samples \in [1..n -> LongRunSamples] :
                 Ticked(perform_step(App,
                            normal_draws(spawn_phase(App).particle_manager.particles,
                                         moves),
                            samples))
    /\ last' = Call("perform_step", "None")
    /\ UNCHANGED <<calls, particleVars, fileVars, loopVars, viewVars>>

NextPopulation ==
    \/ PoPerformStep
    \/ ClearSimulation

SpecPopulation == InitPopulation /\ [][NextPopulation]_vars

-----------------------------------------------------------------------------
(* The read accessors.  A caller keeps what an accessor returned; views    *)
(* holds these values.  get_particle_positions builds a new list of        *)
(* tuples, get_mask_data and get_particle_count_data copy the array;       *)
(* get_particles returns self.particles.copy(), a new list of the same     *)
(* Particle objects.  An element of that list is a reference: idx is the   *)
(* object's place in the manager's list while it is there, and obj the     *)
(* object once the manager has dropped it.  at_return is what the caller   *)
(* saw when the accessor returned.                                          *)

MaxViews == 1

Accessors ==
    {"get_particles", "get_particle_positions", "get_mask_data",
     "get_particle_count_data"}

\* what the caller reads in a value it holds
Read(pm, view) ==
    IF view.of = "get_particles"
    THEN [i \in 1..Len(view.items) |->
             IF view.items[i].idx > 0 THEN pm.particles[view.items[i].idx]
             ELSE view.items[i].obj]
    ELSE view.items

\* get_particles: self.particles.copy()
get_particles(pm) ==
    [i \in 1..Len(pm.particles) |-> [idx |-> i, obj |-> pm.particles[i]]]

\* get_particle_positions: [particle.get_position() for particle in ...]
get_particle_positions(pm) ==
    [i \in 1..Len(pm.particles) |-> <<pm.particles[i].x, pm.particles[i].y>>]

\* get_mask_data: self.mask_grid.copy()
get_mask_data(ms) == ms.mask_grid

\* get_particle_count_data: the copy of the count grid, or None (<<>>)
get_particle_count_data(ms) ==
    IF ms.count_particles /\ ms.particle_count_mask # <<>>
    THEN ms.particle_count_mask
    ELSE <<>>

\* the references a caller holds after the manager dropped the particles at
\* the positions gone from its list
Rehomed(pm, view, gone) ==
    IF view.of # "get_particles" THEN view
    ELSE [view EXCEPT !.items =
            [i \in 1..Len(@) |->
                IF @[i].idx = 0 THEN @[i]
                ELSE IF @[i].idx \in gone
                     THEN [idx |-> 0, obj |-> pm.particles[@[i].idx]]
                     ELSE [idx |-> @[i].idx
                                     - Cardinality({j \in gone : j < @[i].idx}),
                           obj |-> @[i].obj]]]

InitViews ==
    /\ particle_manager =
           ParticleManager([DefaultProfile EXCEPT !.particles.lifetime = MaxMoves])
    /\ mask_system = MaskSystem(DefaultProfile)
    /\ step_counter = 0
    /\ current_config = <<>>
    /\ config_manager = <<>>
    /\ catch_log = NoTick
    /\ last = Call("MaskSystem", "None")
    /\ IdleSpawner
    /\ IdleDividers
    /\ IdleParticle
    /\ IdleFiles
    /\ IdleLoop
    /\ IdleViews

\* a step of the core or of a caller
ViewStep(op, pm, ms, held) ==
    /\ particle_manager' = pm
    /\ mask_system' = ms
    /\ views' = held
    /\ last' = Call(op, "None")
    /\ UNCHANGED <<spawnerVars, dividerVars, step_counter, current_config,
                   config_manager, catch_log, particleVars, fileVars, loopVars>>

Returned(accessor, value) ==
    /\ Len(views) < MaxViews
    /\ ViewStep(accessor, particle_manager, mask_system,
                Append(views, [of |-> accessor, items |-> value,
                               at_return |-> Read(particle_manager,
                                                  [of |-> accessor,
                                                   items |-> value])]))

VwGetParticles == Returned("get_particles", get_particles(particle_manager))

VwGetParticlePositions ==
    Returned("get_particle_positions", get_particle_positions(particle_manager))

VwGetMaskData == Returned("get_mask_data", get_mask_data(mask_system))

VwGetParticleCountData ==
    Returned("get_particle_count_data", get_particle_count_data(mask_system))

\* the caller changes what it holds: the last element of a list is popped,
\* a cell of an array is overwritten
Popped(view) ==
    [of |-> view.of,
     items |-> SubSeq(view.items, 1, Len(view.items) - 1),
     at_return |-> SubSeq(view.at_return, 1, Len(view.at_return) - 1)]

Overwritten(view, cell) ==
    [of |-> view.of,
     items |-> [view.items EXCEPT ![cell] = MaskUnits(1)],
     at_return |-> [view.at_return EXCEPT ![cell] = MaskUnits(1)]]

VwModifyList ==
    \E v \in DOMAIN views :
        /\ views[v].of \in {"get_particles", "get_particle_positions"}
        /\ views[v].items # <<>>
        /\ ViewStep("modify_list", particle_manager, mask_system,
                    [views EXCEPT ![v] = Popped(@)])

VwModifyArray ==
    \E v \in DOMAIN views :
        /\ views[v].of \in {"get_mask_data", "get_particle_count_data"}
        /\ views[v].items # <<>>
        /\ \E cell \in DOMAIN views[v].items :
              /\ views[v].items[cell] # MaskUnits(1)
              /\ cell[1] = 0
              /\ ViewStep("modify_array", particle_manager, mask_system,
                          [views EXCEPT ![v] = Overwritten(@, cell)])

VwSpawnMultipleParticles ==
    /\ Len(particle_manager.particles) < MaxParticles
    /\ ViewStep("spawn_multiple_particles",
                spawn_multiple_particles(particle_manager,
                    DefaultProfile.ellipse.center_x, DefaultProfile.ellipse.center_y,
                    1, DefaultProfile.particles.velocity),
                mask_system, views)

VwMoveAllParticles ==
    /\ \A i \in 1..Len(particle_manager.particles) :
          particle_manager.particles[i].age < MaxMoves
    /\ \E draws \in [1..Len(particle_manager.particles) -> Displacements] :
          ViewStep("move_all_particles",
                   move_all_particles(particle_manager,
                       normal_draws(particle_manager.particles, draws)),
                   mask_system, views)

VwRemoveExpiredParticles ==
    ViewStep("remove_expired_particles",
             remove_expired_particles(particle_manager).pm, mask_system,
             [v \in DOMAIN views |->
                 Rehomed(particle_manager, views[v],
                     {i \in 1..Len(particle_manager.particles) :
                         is_expired(particle_manager.particles[i],
                                    particle_manager.max_lifetime)})])

VwClearAllParticles ==
    ViewStep("clear_all_particles", clear_all_particles(particle_manager),
             mask_system,
             [v \in DOMAIN views |->
                 Rehomed(particle_manager, views[v],
                         1..Len(particle_manager.particles))])

VwTryCatchParticleByCell ==
    /\ \A c \in DOMAIN mask_system.mask_grid : mask_system.mask_grid[c] = 0
    /\ \E i \in 1..Len(particle_manager.particles), sample \in Samples :
          ViewStep("try_catch_particle_by_cell", particle_manager,
                   try_catch_particle_by_cell(mask_system,
                       particle_manager.particles[i].x,
                       particle_manager.particles[i].y,
                       DefaultProfile.catching, sample).ms,
                   views)

VwResetMask ==
    ViewStep("reset_mask", particle_manager, reset_mask(mask_system), views)

NextViews ==
    \/ VwGetParticles
    \/ VwGetParticlePositions
    \/ VwGetMaskData
    \/ VwGetParticleCountData
    \/ VwModifyList
    \/ VwModifyArray
    \/ VwSpawnMultipleParticles
    \/ VwMoveAllParticles
    \/ VwRemoveExpiredParticles
    \/ VwClearAllParticles
    \/ VwTryCatchParticleByCell
    \/ VwResetMask

SpecViews == InitViews /\ [][NextViews]_vars

-----------------------------------------------------------------------------
(* Claims about the ParticleSpawner, checked under SpecSpawner *)

\* C5: over N consecutive should_spawn() calls on an active spawner with
\* interval k >= 1, from a zero counter, the calls that return true are
\* exactly those with index k, 2k, 3k, ..., so floor(N/k) of them do.
C5_SpawnerPeriodicity ==
    (calls.clean /\ spawner.spawn_interval >= 1) =>
        LET k == spawner.spawn_interval
            N == Len(calls.results)
        IN  /\ \A i \in 1..N : calls.results[i] = Bool(i % k = 0)
            /\ Cardinality({i \in 1..N : calls.results[i] = "True"}) = N \div k

\* a run of five calls under interval 2: the second and fourth fired
C5_Witness ==
    /\ calls.clean
    /\ spawner.spawn_interval = 2
    /\ Len(calls.results) = 5
    /\ calls.results[4] = "True"

\* C6: spawn_count >= 1 and spawn_interval >= 1 in every state of a spawner,
\* the state right after construction included.
C6_SpawnerParametersAtLeastOne ==
    /\ spawner.spawn_count >= 1
    /\ spawner.spawn_interval >= 1

-----------------------------------------------------------------------------
(* Claims about the DividerManager, checked under SpecDivider *)

\* the points at which the region probability is asked
QueryXs == 0..6

\* the dividers strictly left of x
LeftOf(x) == {i \in 1..Len(dividers) : dividers[i].x < x}

\* C8: get_region_probability(x) is the probability of a divider with the
\* greatest x among those with divider.x < x, and 0 when there is none.
C8_RegionProbabilityIsNearestLeft ==
    \A x \in QueryXs :
        IF LeftOf(x) = {}
        THEN get_region_probability(dividers, x) = 0
        ELSE \E i \in LeftOf(x) :
                /\ \A j \in LeftOf(x) : dividers[j].x <= dividers[i].x
                /\ get_region_probability(dividers, x) = dividers[i].probability

\* how often e occurs in the sequence s
Count(s, e) == Cardinality({i \in 1..Len(s) : s[i] = e})

\* C9: add_divider returns false and changes nothing when the name exists or
\* the position is outside [center_x - radius_x, center_x + radius_x];
\* otherwise it returns true and the sequence holds exactly the old dividers
\* and the new one.
C9_AddDividerRejectsOrInserts ==
    [][last'.op = "add_divider" =>
        LET new == Divider(last'.name, last'.x, last'.val)
            taken == \E i \in 1..Len(dividers) : dividers[i].name = new.name
            outside ==
                \/ new.x < planaria_bounds.center_x - planaria_bounds.radius_x
                \/ new.x > planaria_bounds.center_x + planaria_bounds.radius_x
        IN  IF taken \/ outside
            THEN last'.ret = "False" /\ dividers' = dividers
            ELSE /\ last'.ret = "True"
                 /\ Len(dividers') = Len(dividers) + 1
                 /\ \A i \in 1..Len(dividers') :
                        Count(dividers', dividers'[i]) =
                            Count(dividers, dividers'[i])
                            + (IF dividers'[i] = new THEN 1 ELSE 0)
                 /\ Count(dividers', new) = Count(dividers, new) + 1]_vars

\* add_divider refused a position inside the bounds: the name was taken
C9_Witness ==
    /\ last.op = "add_divider"
    /\ last.ret = "False"
    /\ validate_position(planaria_bounds, last.x)
    /\ Len(dividers) = 2

\* C10: no two dividers of the manager carry the same name.
C10_DividerNamesUnique ==
    \A i, j \in 1..Len(dividers) :
        i # j => dividers[i].name # dividers[j].name

\* C11: the divider sequence is sorted ascending by x, however the dividers
\* got in: by add_divider or by a load from a configuration list.
C11_DividersSortedByX ==
    \A i \in 1..Len(dividers), j \in 1..Len(dividers) :
        i < j => dividers[i].x <= dividers[j].x

\* C12: the probability of every divider is within [0, 1], whatever value
\* it was constructed, added, loaded or set with.
C12_DividerProbabilityInUnitInterval ==
    \A i \in 1..Len(dividers) :
        0 <= dividers[i].probability /\ dividers[i].probability <= ProbScale

\* C13: update_planaria_bounds(bounds) drops exactly the dividers whose x is
\* outside [center_x - radius_x, center_x + radius_x] of the new bounds and
\* keeps the others as they were and in their order; every divider left has
\* a valid position.
C13_UpdateBoundsPrunesOutside ==
    [][last'.op = "update_planaria_bounds" =>
        LET lo == planaria_bounds'.center_x - planaria_bounds'.radius_x
            hi == planaria_bounds'.center_x + planaria_bounds'.radius_x
            kept == {i \in 1..Len(dividers) : lo <= dividers[i].x /\ dividers[i].x <= hi}
        IN  /\ Len(dividers') = Cardinality(kept)
            /\ \A k \in 1..Len(dividers') :
                  \E i \in kept :
                      /\ Cardinality({j \in kept : j <= i}) = k
                      /\ dividers'[k] = dividers[i]
            /\ \A k \in 1..Len(dividers') :
                  lo <= dividers'[k].x /\ dividers'[k].x <= hi]_vars

\* update_planaria_bounds has dropped a divider and kept one that sits on
\* the edge of the new bounds
C13_Witness ==
    /\ last.op = "update_planaria_bounds"
    /\ last.val > 0
    /\ \E i \in 1..Len(dividers) :
          dividers[i].x = planaria_bounds.center_x - planaria_bounds.radius_x

-----------------------------------------------------------------------------
(* Claims about the MaskPainter application, checked under Spec *)

\* the cells a catch at (x, y) paints: within the catch radius of the point
\* and inside the ellipse
Footprint(ms, cfg, x, y) ==
    {c \in DOMAIN ms.mask_grid :
        LET w == grid_to_coord(ms, c[1], c[2])
        IN  /\ Sq(w[1] - x) + Sq(w[2] - y) <= Sq(cfg.catching.radius)
            /\ is_inside_ellipse(ms, w[1], w[2])}

Escapes(e, lifetime) == e.region # "hit" /\ e.cell # "hit" /\ e.age < lifetime

\* C1: one perform_step() runs spawn, move+reflect, capture, removal of the
\* captured, removal of the expired and decay once each, in that order: the
\* particles resolved for capture are the old ones and the ones just created,
\* each moved once and reflected; the survivors are the resolved particles
\* that were not captured and are younger than the lifetime; the mask left
\* is the decay of the mask as stamped in this tick.
C1_PerformStepPhaseOrder ==
    [][last'.op = "perform_step" =>
        LET old == particle_manager.particles
            due == spawner.is_active
                     /\ (spawner.step_counter + 1) % spawner.spawn_interval = 0
            log == catch_log'
            E == log.entries
            cfg == current_config
            lifetime == particle_manager.max_lifetime
            before == log.before_decay
            after == mask_system'.mask_grid
        IN  /\ step_counter' = step_counter + 1
            /\ spawner'.step_counter = spawner.step_counter + 1
            /\ log.spawned = IF due THEN spawner.spawn_count ELSE 0
            /\ Len(E) = Len(old) + log.spawned
            /\ \A i \in 1..Len(old) : E[i].age = old[i].age + 1
            /\ \A i \in (Len(old) + 1)..Len(E) :
                  /\ E[i].age = 1
                  /\ \E d \in Displacements :
                        LET p == reflect_at_boundary(
                                     move(Particle(spawner.x, spawner.y, cfg.particles.velocity), d),
                                     cfg.ellipse)
                        IN  E[i].x = p.x /\ E[i].y = p.y
            /\ \A i \in 1..Len(E) :
                  /\ EllipseLhs(cfg.ellipse, E[i].x, E[i].y) < EllipseRhs(cfg.ellipse)
                  /\ E[i].region = "hit" \/ E[i].cell # "none"
            /\ particle_manager'.particles =
                  [i \in 1..Cardinality({j \in 1..Len(E) : Escapes(E[j], lifetime)}) |->
                      LET k == CHOOSE k \in 1..Len(E) :
                                  /\ Escapes(E[k], lifetime)
                                  /\ Cardinality({j \in 1..k : Escapes(E[j], lifetime)}) = i
                      IN  [x |-> E[k].x, y |-> E[k].y, velocity |-> E[k].velocity,
                           age |-> E[k].age, born |-> E[k].born,
                           movement_mode |-> "diffusion"]]
            /\ log.expired = Cardinality({i \in 1..Len(E) :
                  E[i].region # "hit" /\ E[i].cell # "hit" /\ E[i].age >= lifetime})
            /\ \A c \in DOMAIN after :
                  /\ before[c] = mask_system.mask_grid[c]
                       + MaskUnits(cfg.catching.exposure)
                         * Cardinality({i \in 1..Len(E) :
                               /\ E[i].cell = "hit"
                               /\ c \in Footprint(mask_system, cfg, E[i].x, E[i].y)})
                  /\ after[c] =
                       IF before[c] < MaskUnits(cfg.step_function.saturation_threshold)
                       THEN (before[c] * (ProbScale - cfg.step_function.decay_rate))
                                \div ProbScale
                       ELSE before[c]]_vars

\* a tick has spawned, captured by cell a particle it created, expired an
\* older one, and left a cell holding less than was stamped on it
C1_Witness ==
    /\ last.op = "perform_step"
    /\ catch_log.spawned > 0
    /\ catch_log.expired > 0
    /\ \E i \in 1..Len(catch_log.entries) :
          catch_log.entries[i].age = 1 /\ catch_log.entries[i].cell = "hit"
    /\ \E c \in DOMAIN mask_system.mask_grid :
          0 < mask_system.mask_grid[c]
          /\ mask_system.mask_grid[c] < catch_log.before_decay[c]

\* C2: a particle caught by the divider-region check is not evaluated for
\* cell catching: no second sample is drawn for it, and it changes neither
\* the exposure grid nor the count grid.
C2_RegionCatchSkipsCell ==
    \A i \in 1..Len(catch_log.entries) :
        catch_log.entries[i].region = "hit" =>
            /\ catch_log.entries[i].cell = "none"
            /\ ~catch_log.entries[i].stamped
            /\ ~catch_log.entries[i].counted

\* a tick in which the region check caught one particle and the cell check
\* stamped for another
C2_Witness ==
    /\ \E i \in 1..Len(catch_log.entries) : catch_log.entries[i].region = "hit"
    /\ \E i \in 1..Len(catch_log.entries) : catch_log.entries[i].stamped

\* C3 as stated: no particle has a sample drawn for both mechanisms in one tick
C3_Original_AtMostOneDraw ==
    \A i \in 1..Len(catch_log.entries) :
        ~(catch_log.entries[i].region # "none" /\ catch_log.entries[i].cell # "none")

\* C3: in one tick every particle is caught by at most one of the two
\* mechanisms, and the cell mechanism is evaluated for exactly the particles
\* the region check did not catch (those whose region draw missed included).
C3_CellEvaluatedIffRegionMissed ==
    \A i \in 1..Len(catch_log.entries) :
        /\ ~(catch_log.entries[i].region = "hit" /\ catch_log.entries[i].cell = "hit")
        /\ catch_log.entries[i].cell = "none" <=> catch_log.entries[i].region = "hit"

\* a particle whose region draw missed and whose cell draw was made
C3_Witness ==
    \E i \in 1..Len(catch_log.entries) :
        /\ catch_log.entries[i].region = "miss"
        /\ catch_log.entries[i].cell \in {"hit", "miss"}

\* C4: clear_simulation() leaves no particle, an exposure grid and a count
\* grid of zeros, both step counters at 0, and the shape and bounds of the
\* grids as they were.
C4_ClearSimulationPristine ==
    [][last'.op = "clear_simulation" =>
        /\ particle_manager'.particles = <<>>
        /\ \A c \in DOMAIN mask_system'.mask_grid : mask_system'.mask_grid[c] = 0
        /\ \A c \in DOMAIN mask_system'.particle_count_mask :
              mask_system'.particle_count_mask[c] = 0
        /\ spawner'.step_counter = 0
        /\ step_counter' = 0
        /\ DOMAIN mask_system'.mask_grid = DOMAIN mask_system.mask_grid
        /\ DOMAIN mask_system'.particle_count_mask
              = DOMAIN mask_system.particle_count_mask
        /\ \A f \in {"x_min", "x_max", "y_min", "y_max", "grid_size_x", "grid_size_y"} :
              mask_system'[f] = mask_system[f]]_vars

\* clear_simulation() has run on a simulation that had stepped and held
\* particles
C4_Witness ==
    /\ last.op = "clear_simulation"
    /\ last.x > 0
    /\ last.val > 0
    /\ particle_manager.particles = <<>>
    /\ DOMAIN mask_system.particle_count_mask # {}

\* C7: once a profile has been applied the spawner sits at the rightmost tip
\* of the ellipse, (center_x + radius_x, center_y).
C7_SpawnerAtRightmostTip ==
    get_position(spawner) =
        <<current_config.ellipse.center_x + current_config.ellipse.radius_x,
          current_config.ellipse.center_y>>

\* C14: after every completed perform_step() no live particle has reached
\* max_lifetime; with max_lifetime <= 1 no particle outlives the tick that
\* created it.
C14_NoLiveParticleAtLifetime ==
    last.op = "perform_step" =>
        /\ \A i \in 1..Len(particle_manager.particles) :
              particle_manager.particles[i].age < particle_manager.max_lifetime
        /\ particle_manager.max_lifetime <= 1 => particle_manager.particles = <<>>

\* a tick has destroyed a particle whose age reached the lifetime and has
\* left a younger one alive
C14_Witness ==
    /\ last.op = "perform_step"
    /\ catch_log.expired > 0
    /\ particle_manager.particles # <<>>

\* the particles move is tried on: both modes, the ages a tick can meet
MoveInputs ==
    {[ParticleWithVelocity(pt[1], pt[2], v[1], v[2], mode) EXCEPT !.age = a] :
        pt \in StartPoints, v \in Velocities, mode \in MovementModes, a \in 0..MaxTicks}

\* C15: move() adds exactly 1 to the age in the straight and in the
\* diffusion mode, and a tick moves every particle once: after t ticks a
\* live particle spawned in tick s has age t - s + 1.
C15_AgeCountsTicksLived ==
    /\ \A p \in MoveInputs, d \in WideDisplacements : move(p, d).age = p.age + 1
    /\ \A i \in 1..Len(particle_manager.particles) :
          LET p == particle_manager.particles[i]
          IN  /\ p.born \in 1..step_counter
              /\ p.age = step_counter - p.born + 1

\* after the second tick a particle spawned in the first one is alive, next
\* to one spawned in the second
C15_Witness ==
    /\ step_counter = 2
    /\ \E i, j \in 1..Len(particle_manager.particles) :
          /\ particle_manager.particles[i].born = 1
          /\ particle_manager.particles[i].age = 2
          /\ particle_manager.particles[j].born = 2
          /\ particle_manager.particles[j].age = 1

\* the mask system built from the configuration the manager was built from
MaskSystemOf(pm) == MaskSystem([DefaultProfile EXCEPT !.ellipse = pm.ellipse])

\* C16: when move_all_particles() returns, every particle lies strictly
\* inside the ellipse, wherever it was and whatever its displacement, so the
\* cell-based catching that follows rejects none of them as outside.
C16_MoveLeavesParticlesInside ==
    last.op = "move_all_particles" =>
        \A i \in 1..Len(particle_manager.particles) :
            LET p == particle_manager.particles[i]
            IN  /\ EllipseLhs(particle_manager.ellipse, p.x, p.y)
                      < EllipseRhs(particle_manager.ellipse)
                /\ \A sample \in Samples :
                      try_catch_particle_by_cell(MaskSystemOf(particle_manager),
                          p.x, p.y, DefaultProfile.catching, sample).cell # "outside"

\* move_all_particles() has returned after the moves carried both of two
\* particles onto or across the boundary
C16_Witness ==
    /\ last.op = "move_all_particles"
    /\ Len(particle_manager.particles) = 2
    /\ last.val = 2

\* vx^2 + vy^2 of p, brought to the denominator of q
Speed2Over(p, q) == (Sq(p.vx) + Sq(p.vy)) * Sq(q.vden)

\* the reflection met the particle on or outside the ellipse, heading outwards
HitsBoundary(p, e) ==
    /\ EllipseLhs(e, p.x, p.y) >= EllipseRhs(e)
    /\ OutwardDot(p, e) > 0

\* C17 as stated: the speed after reflect_at_boundary is at most the speed
\* before it, and equals it if and only if bounce = 1.
C17_Original_EqualIffElastic ==
    [][last'.op = "reflect_at_boundary" =>
          /\ Speed2Over(free_particle', free_particle)
                <= Speed2Over(free_particle, free_particle')
          /\ (Speed2Over(free_particle', free_particle)
                = Speed2Over(free_particle, free_particle'))
             <=> (last'.x = last'.val)]_vars

\* C17: for bounce in [0,1] the speed after reflect_at_boundary is at most
\* the speed before it; it is strictly smaller exactly when the particle is
\* on or outside the ellipse with an outward velocity and bounce < 1.
C17_SpeedNeverGrows ==
    [][last'.op = "reflect_at_boundary" =>
          /\ Speed2Over(free_particle', free_particle)
                <= Speed2Over(free_particle, free_particle')
          /\ (Speed2Over(free_particle', free_particle)
                < Speed2Over(free_particle, free_particle'))
             <=> (HitsBoundary(free_particle, planaria_bounds')
                    /\ last'.x < last'.val)]_vars

\* a reflection with bounce 1/2 has turned back a particle that had moved
\* across the boundary
C17_Witness ==
    /\ last.op = "reflect_at_boundary"
    /\ last.x = 1 /\ last.val = 2
    /\ free_particle.age > 0
    /\ free_particle.vden > 1

\* the point lies in the bounding box of the grid, edges included
InBoundingBox(ms, pt) ==
    /\ ms.x_min <= pt[1] /\ pt[1] <= ms.x_max
    /\ ms.y_min <= pt[2] /\ pt[2] <= ms.y_max

\* C18: coord_to_grid returns (-1, -1) for a point outside the bounding
\* box, and for a point in the box a (row, col) that indexes the grid array:
\* 0 <= row < grid_size_y and 0 <= col < grid_size_x, on every grid the
\* system can create.
C18_CoordToGridIndexesTheGrid ==
    last.op = "coord_to_grid" =>
        IF InBoundingBox(mask_system, last.x)
        THEN /\ 0 <= last.val[1] /\ last.val[1] < mask_system.grid_size_y
             /\ 0 <= last.val[2] /\ last.val[2] < mask_system.grid_size_x
        ELSE last.val = <<0 - 1, 0 - 1>>

\* C19: for a point in the bounding box, grid_to_coord(coord_to_grid(x, y))
\* returns a point whose x is within one cell width of x and whose y is
\* within one cell height of y.
C19_RoundTripWithinOneCell ==
    last.op = "grid_to_coord" =>
        /\ last.ret = "tuple"
        /\ Abs(last.x[1] * mask_system.grid_size_x - last.val[1])
              <= mask_system.x_max - mask_system.x_min
        /\ Abs(last.x[2] * mask_system.grid_size_y - last.val[2])
              <= mask_system.y_max - mask_system.y_min

\* the cells of the grid whose world point lies outside the ellipse
CellsOutsideEllipse(ms) ==
    {c \in DOMAIN ms.mask_grid :
        ~is_inside_ellipse(ms, grid_to_coord(ms, c[1], c[2])[1],
                               grid_to_coord(ms, c[1], c[2])[2])}

\* C20: exposure never leaks outside the boundary: through grid creation,
\* steps (captures and decay) and resets, every cell whose world point is
\* outside the ellipse holds exposure 0.
C20_NoExposureOutsideEllipse ==
    \A c \in CellsOutsideEllipse(mask_system) : mask_system.mask_grid[c] = 0

\* a tick has caught a particle next to the edge: the stamp's circle covers
\* a cell outside the ellipse, and the cell inside it carries exposure
C20_Witness ==
    /\ last.op = "perform_step"
    /\ \E i \in 1..Len(catch_log.entries) :
          LET entry == catch_log.entries[i]
          IN  /\ entry.cell = "hit"
              /\ \E c \in CellsOutsideEllipse(mask_system) :
                    LET w == grid_to_coord(mask_system, c[1], c[2])
                    IN  Sq(w[1] - entry.x) + Sq(w[2] - entry.y)
                            <= Sq(current_config.catching.radius)
              /\ mask_system.mask_grid[coord_to_grid(mask_system, entry.x, entry.y)] > 0

\* the centre of a cell, times twice the grid dimensions: the point
\* grid_to_coord gives for the cell plus half a cell width and height
CellCenterScaled(ms, c) ==
    <<2 * grid_to_coord_scaled(ms, c[1], c[2]).val[1] + (ms.x_max - ms.x_min),
      2 * grid_to_coord_scaled(ms, c[1], c[2]).val[2] + (ms.y_max - ms.y_min)>>

\* the centre of the cell lies within radius of (x, y) and inside the ellipse
CenterInStamp(ms, c, x, y, radius) ==
    LET w == CellCenterScaled(ms, c)
        gx == 2 * ms.grid_size_x
        gy == 2 * ms.grid_size_y
    IN  /\ Sq(w[1] - x * gx) * Sq(gy) + Sq(w[2] - y * gy) * Sq(gx)
              <= Sq(radius * gx * gy)
        /\ Sq(w[1] - ms.ellipse.center_x * gx) * Sq(ms.ellipse.radius_y) * Sq(gy)
             + Sq(w[2] - ms.ellipse.center_y * gy) * Sq(ms.ellipse.radius_x) * Sq(gx)
              <= Sq(ms.ellipse.radius_x * ms.ellipse.radius_y * gx * gy)

\* the point grid_to_coord gives for the cell lies within radius of (x, y)
\* and inside the ellipse
CornerInStamp(ms, c, x, y, radius) ==
    /\ WithinRadiusScaled(ms, grid_to_coord_scaled(ms, c[1], c[2]).val, x, y, radius)
    /\ is_inside_ellipse_scaled(ms, grid_to_coord_scaled(ms, c[1], c[2]).val)

\* C21: a successful capture at (x, y) adds the exposure exactly once to
\* every cell whose centre lies within radius of (x, y) and inside the
\* ellipse, and to no other cell; the search window excludes no such cell.
C21_StampCoversCellsCenteredInRadius ==
    [][(last'.op = "try_catch_particle_by_cell" /\ last'.ret = "True") =>
          \A c \in DOMAIN mask_system.mask_grid :
              mask_system'.mask_grid[c] - mask_system.mask_grid[c] =
                  IF CenterInStamp(mask_system, c, last'.x[1], last'.x[2], last'.val[1])
                  THEN MaskUnits(DefaultProfile.catching.exposure)
                  ELSE 0]_vars

\* C22: try_catch_particle_by_cell on a point outside the ellipse returns
\* false without drawing a sample and without touching either grid; on a
\* point inside it draws exactly one sample, captures if and only if the
\* sample is not greater than the probability, and leaves both grids as
\* they were when it does not capture.
C22_CellCatchDrawsOnceInside ==
    [][last'.op = "try_catch_particle_by_cell" =>
          IF ~is_inside_ellipse(mask_system, last'.x[1], last'.x[2])
          THEN /\ last'.ret = "False"
               /\ last'.val[3] = 0
               /\ mask_system' = mask_system
          ELSE /\ last'.val[3] = 1
               /\ (last'.name = "hit")
                     <=> (last'.val[2] <= DefaultProfile.catching.probability)
               /\ last'.name # "hit" =>
                     /\ last'.ret = "False"
                     /\ mask_system' = mask_system]_vars

\* a sample equal to the probability has captured a particle
C22_Witness ==
    /\ last.op = "try_catch_particle_by_cell"
    /\ last.ret = "True"
    /\ last.val[2] = DefaultProfile.catching.probability
    /\ \E c \in DOMAIN mask_system.mask_grid : mask_system.mask_grid[c] > 0

\* C23: apply_decay(rate, threshold) leaves every cell at or above the
\* threshold unchanged, whatever the rate, and replaces every cell below it
\* by value * (1 - rate), clamped at 0.
C23_DecaySparesSaturatedCells ==
    [][last'.op = "apply_decay" =>
          \A c \in DOMAIN mask_system.mask_grid :
              LET old == mask_system.mask_grid[c]
                  new == mask_system'.mask_grid[c]
              IN  IF old >= MaskUnits(last'.val)
                  THEN new = old
                  ELSE IF last'.x <= ProbScale
                       THEN new * ProbScale = old * (ProbScale - last'.x)
                       ELSE new = 0]_vars

\* a decay with a rate above 1 has run over a grid that still holds a full
\* stamp: cells at the threshold, left as they were
C23_Witness ==
    /\ last.op = "apply_decay"
    /\ last.x > ProbScale
    /\ last.val = 1
    /\ \E c \in DOMAIN mask_system.mask_grid :
          mask_system.mask_grid[c] = MaskUnits(1)

\* C24: after every apply_decay call every cell of the exposure grid is
\* >= 0, for any decay rate, rates above 1 included, and any threshold.
C24_ExposureNeverNegative ==
    last.op = "apply_decay" =>
        \A c \in DOMAIN mask_system.mask_grid : mask_system.mask_grid[c] >= 0

\* a decay with a rate above 1 and a threshold above the stamp has run
\* over a grid whose count grid records a capture: the stamped cells,
\* multiplied by a negative factor, hold 0
C24_Witness ==
    /\ last.op = "apply_decay"
    /\ last.x > ProbScale
    /\ last.val = 3
    /\ \E c \in DOMAIN mask_system.particle_count_mask :
          /\ mask_system.particle_count_mask[c] > 0
          /\ c \in DOMAIN mask_system.mask_grid
          /\ mask_system.mask_grid[c] = 0

\* update_config has changed the ellipse or the resolution in this step
GeometryChanged ==
    /\ last'.op = "update_config"
    /\ \/ mask_system'.ellipse # mask_system.ellipse
       \/ mask_system'.mask_resolution # mask_system.mask_resolution

\* the exposure grid of ms is the zero grid that create_mask_grid builds
\* from the parameters ms holds
FreshExposureGrid(ms) ==
    /\ ms.x_min = ms.ellipse.center_x - ms.ellipse.radius_x - ms.grid_padding
    /\ ms.x_max = ms.ellipse.center_x + ms.ellipse.radius_x + ms.grid_padding
    /\ ms.y_min = ms.ellipse.center_y - ms.ellipse.radius_y - ms.grid_padding
    /\ ms.y_max = ms.ellipse.center_y + ms.ellipse.radius_y + ms.grid_padding
    /\ ms.grid_size_x = ms.mask_resolution
    /\ ms.grid_size_y * (ms.x_max - ms.x_min) <= ms.mask_resolution * (ms.y_max - ms.y_min)
    /\ (ms.grid_size_y + 1) * (ms.x_max - ms.x_min) > ms.mask_resolution * (ms.y_max - ms.y_min)
    /\ DOMAIN ms.mask_grid = (0..(ms.grid_size_y - 1)) \X (0..(ms.grid_size_x - 1))
    /\ \A c \in DOMAIN ms.mask_grid : ms.mask_grid[c] = 0

\* C25: when update_config changes the ellipse or the resolution the grid
\* is recreated: its shape and bounds match the new parameters and every
\* cell of the exposure grid and of the count grid is 0.
C25_GeometryChangeRecreatesGrids ==
    [][GeometryChanged =>
          /\ FreshExposureGrid(mask_system')
          /\ \A c \in DOMAIN mask_system'.particle_count_mask :
                mask_system'.particle_count_mask[c] = 0]_vars

\* C30: whenever the capture count grid exists it has the shape of the
\* exposure grid, through construction, update_config calls that change
\* geometry, resolution and the count_particles flag, reset and captures.
C30_CountGridHasExposureShape ==
    mask_system.particle_count_mask # <<>> =>
        DOMAIN mask_system.particle_count_mask = DOMAIN mask_system.mask_grid

\* the rows the box asks for, as a fraction: RowsNum(ms) / RowsDen(ms)
RowsNum(ms) == ms.mask_resolution * (ms.y_max - ms.y_min)

RowsDen(ms) == ms.x_max - ms.x_min

\* C27 as stated: the grid has resolution columns and
\* round(resolution * (y_max - y_min) / (x_max - x_min)) rows (a tie may go
\* either way).
C27_Original_RowsRounded ==
    /\ mask_system.grid_size_x = mask_system.mask_resolution
    /\ 2 * mask_system.grid_size_y * RowsDen(mask_system)
           <= 2 * RowsNum(mask_system) + RowsDen(mask_system)
    /\ 2 * mask_system.grid_size_y * RowsDen(mask_system)
           >= 2 * RowsNum(mask_system) - RowsDen(mask_system)
    /\ DOMAIN mask_system.mask_grid =
           (0..(mask_system.grid_size_y - 1)) \X (0..(mask_system.grid_size_x - 1))

\* C27: the grid has resolution columns and the integer part of
\* resolution * (y_max - y_min) / (x_max - x_min) rows, and the exposure
\* grid has the shape (rows, columns).
C27_RowsTruncated ==
    /\ mask_system.grid_size_x = mask_system.mask_resolution
    /\ mask_system.grid_size_y * RowsDen(mask_system) <= RowsNum(mask_system)
    /\ (mask_system.grid_size_y + 1) * RowsDen(mask_system) > RowsNum(mask_system)
    /\ DOMAIN mask_system.mask_grid =
           (0..(mask_system.grid_size_y - 1)) \X (0..(mask_system.grid_size_x - 1))

\* a grid with at least one row whose row fraction is above one half
C27_Witness ==
    /\ mask_system.grid_size_y > 0
    /\ 2 * (RowsNum(mask_system) % RowsDen(mask_system)) > RowsDen(mask_system)
    /\ last.op = "update_config"

\* the file load_mask is given holds an array of the grid's current shape
HoldsCurrentShape(ms, fs, filepath) ==
    /\ filepath \in DOMAIN fs
    /\ fs[filepath].shape = <<ms.grid_size_y, ms.grid_size_x>>

\* C28: load_mask of a file whose array has another shape (or of no file)
\* returns False and leaves the exposure grid and the count grid as they
\* were; load_mask of a file whose array has the current shape returns True
\* and makes the exposure grid equal to the stored data, which is the grid
\* save_mask wrote; the count grid stays as it was.
C28_LoadMaskChecksShape ==
    [][/\ last'.op = "save_mask" =>
             /\ last'.ret = "True"
             /\ files'[NpyPath(last'.name)] =
                    [shape |-> <<mask_system.grid_size_y, mask_system.grid_size_x>>,
                     data |-> mask_system.mask_grid]
             /\ mask_system' = mask_system
       /\ last'.op = "load_mask" =>
             IF HoldsCurrentShape(mask_system, files, last'.name)
             THEN /\ last'.ret = "True"
                  /\ mask_system'.mask_grid = files[last'.name].data
                  /\ mask_system' =
                         [mask_system EXCEPT !.mask_grid = files[last'.name].data]
             ELSE /\ last'.ret = "False"
                  /\ mask_system' = mask_system]_vars

\* a load that succeeded and brought exposure back into the grid
C28_Witness ==
    /\ last.op = "load_mask"
    /\ last.ret = "True"
    /\ \E c \in DOMAIN mask_system.mask_grid : mask_system.mask_grid[c] > 0
    /\ \A c \in DOMAIN mask_system.particle_count_mask :
          mask_system.particle_count_mask[c] = 0

\* the particle of a tick's history was caught, by a region or by a cell
Caught(entry) == entry.region = "hit" \/ entry.cell = "hit"

\* the positions in the tick's history of the particles that were caught
CapturedIn(log) == {i \in 1..Len(log.entries) : Caught(log.entries[i])}

\* the particles of a tick's history that were not caught and are younger
\* than the lifetime, in the order of the list
SurvivorsOf(log, max_lifetime) ==
    SelectSeq(log.entries, LAMBDA entry : ~Caught(entry) /\ entry.age < max_lifetime)

\* C29: no particle is duplicated or lost.  In a tick the particles held
\* before plus the ones spawned are each either captured, or expired (not
\* captured and of age >= max_lifetime, which is the number
\* remove_expired_particles returns), or kept exactly once in their order;
\* so spawned = live + captured + expired over the ticks since the last
\* clear, a particle both captured and old enough counting as captured
\* only.  Slider handlers keep the collection, a clear or a profile load
\* empties it.
C29_ParticlesConserved ==
    [][/\ (last'.op = "perform_step" /\ catch_log' = NoTick) =>
             particle_manager'.particles = particle_manager.particles
       /\ (last'.op = "perform_step" /\ catch_log' # NoTick) =>
             LET log == catch_log'
                 kept == particle_manager'.particles
                 survivors == SurvivorsOf(log, particle_manager.max_lifetime)
             IN  /\ Len(log.entries) = Len(particle_manager.particles) + log.spawned
                 /\ log.expired =
                        Cardinality({i \in 1..Len(log.entries) :
                            /\ ~Caught(log.entries[i])
                            /\ log.entries[i].age >= particle_manager.max_lifetime})
                 /\ Len(kept) = Len(survivors)
                 /\ \A i \in 1..Len(kept) :
                       /\ kept[i].x = survivors[i].x
                       /\ kept[i].y = survivors[i].y
                       /\ kept[i].age = survivors[i].age
                       /\ kept[i].born = survivors[i].born
                 /\ Len(particle_manager.particles) + log.spawned =
                        Len(kept) + Cardinality(CapturedIn(log)) + log.expired
       /\ last'.op \in {"clear_simulation", "load_selected_profile"} =>
             particle_manager'.particles = <<>>
       /\ last'.op \in {"update_step_parameters", "update_spawner_parameters",
                        "update_divider_parameters"} =>
             particle_manager'.particles = particle_manager.particles]_vars

\* a tick that spawned, captured a particle that had also reached the
\* lifetime and expired another
C29_Witness ==
    /\ last.op = "perform_step"
    /\ catch_log.spawned > 0
    /\ catch_log.expired > 0
    /\ \E i \in CapturedIn(catch_log) :
          catch_log.entries[i].age >= particle_manager.max_lifetime

\* the handlers of the control panel
PanelOps ==
    {"update_velocity", "update_catch_probability", "update_catch_radius",
     "update_catch_exposure", "update_step_parameters",
     "update_spawner_parameters", "update_divider_parameters"}

\* a handler has put the value it was given where the tick reads it
PanelValueStored ==
    /\ last'.op = "update_velocity" =>
          current_config'.particles.velocity = last'.val
    /\ last'.op = "update_catch_probability" =>
          current_config'.catching.probability = last'.val
    /\ last'.op = "update_catch_radius" =>
          current_config'.catching.radius = last'.val
    /\ last'.op = "update_catch_exposure" =>
          current_config'.catching.exposure = last'.val
    /\ last'.op = "update_step_parameters" =>
          current_config'.step_function.decay_rate = last'.val
    /\ last'.op = "update_spawner_parameters" =>
          /\ spawner'.spawn_count = last'.val[1]
          /\ spawner'.spawn_interval = last'.val[2]
    /\ last'.op = "update_divider_parameters" =>
          dividers' = load_from_config(last'.val)

\* a tick has worked with the catching, decay, spawner and divider values
\* the configuration held when it began
TickUsesPanelValues ==
    LET log == catch_log'
        E == log.entries
        cfg == current_config
        before == log.before_decay
        after == mask_system'.mask_grid
        due == (spawner.step_counter + 1) % cfg.spawner.spawn_interval = 0
    IN  /\ log.spawned = IF due THEN cfg.spawner.spawn_count ELSE 0
        /\ cfg.catching.probability >= ProbScale =>
              \A i \in 1..Len(E) : E[i].cell # "miss"
        /\ \A i \in 1..Len(E) :
              E[i].region = "none" <=>
                  get_region_probability(load_from_config(cfg.dividers), E[i].x) = 0
        /\ \A c \in DOMAIN after :
              /\ before[c] = mask_system.mask_grid[c]
                   + MaskUnits(cfg.catching.exposure)
                     * Cardinality({i \in 1..Len(E) :
                           /\ E[i].cell = "hit"
                           /\ c \in Footprint(mask_system, cfg, E[i].x, E[i].y)})
              /\ after[c] =
                   IF before[c] < MaskUnits(cfg.step_function.saturation_threshold)
                   THEN (before[c] * (ProbScale - cfg.step_function.decay_rate))
                            \div ProbScale
                   ELSE before[c]

\* a tick has moved every particle with the velocity the configuration held
\* when it began
TickUsesPanelVelocity ==
    \A i \in 1..Len(catch_log'.entries) :
        catch_log'.entries[i].velocity = current_config.particles.velocity

\* MaskSystem.update_config with the ellipse and the resolution it has
\* keeps both grids and the grid bounds
SameGeometryKeepsGrids ==
    \A padding \in 0..MaxPadding, flag \in BOOLEAN :
        LET config == [current_config EXCEPT
                          !.ellipse = mask_system.ellipse,
                          !.system = [count_particles |-> flag,
                                      mask_resolution |-> mask_system.mask_resolution,
                                      grid_padding |-> padding]]
            updated == mask_system_update_config(mask_system, config)
        IN  /\ updated.mask_grid = mask_system.mask_grid
            /\ updated.particle_count_mask = mask_system.particle_count_mask
            /\ <<updated.x_min, updated.x_max, updated.y_min, updated.y_max>> =
                   <<mask_system.x_min, mask_system.x_max,
                     mask_system.y_min, mask_system.y_max>>

\* C26: changing a leaf parameter (velocity, catch probability, radius,
\* exposure, decay rate, spawn count and interval, divider set) leaves the
\* exposure grid, the count grid and the particle collection as they were;
\* MaskSystem.update_config with unchanged ellipse and resolution leaves
\* both grids and the grid bounds unchanged; and the next tick works with
\* the new value.
C26_LeafChangeKeepsStateAndApplies ==
    [][/\ last'.op \in PanelOps =>
             /\ mask_system' = mask_system
             /\ particle_manager'.particles = particle_manager.particles
             /\ PanelValueStored
       /\ SameGeometryKeepsGrids
       /\ (last'.op = "perform_step" /\ catch_log' # NoTick) =>
             /\ TickUsesPanelValues
             /\ TickUsesPanelVelocity]_vars

\* the phase that follows a phase of perform_step
NextPhase(phase) ==
    CASE phase = "spawn" -> "move"
      [] phase = "move" -> "catch"
      [] phase = "catch" -> "remove"
      [] phase = "remove" -> "expire"
      [] phase = "expire" -> "decay"
      [] phase = "decay" -> "show"
      [] OTHER -> "idle"

\* a slot starts in this step: a signal leaves the queue
SlotStarts == Len(events') < Len(events)

\* C31: a tick is atomic, whether the timer or the Step button started it:
\* a slot (perform_step, clear_simulation, a parameter handler) starts only
\* when no tick is running; while a tick runs the application changes only
\* by that tick's next phase; and when the tick returns, the application is
\* what one uninterrupted perform_step makes of the state the tick started in
C31_TickIsAtomic ==
    [][/\ SlotStarts => tick.phase = "idle"
       /\ (tick.phase # "idle" /\ (App' # App \/ tick' # tick)) =>
             tick'.phase = NextPhase(tick.phase)
       /\ (tick.phase = "show" /\ tick'.phase = "idle") =>
             /\ tick.by \in {"timeout", "step_clicked"}
             /\ App' = perform_step(tick.start, tick.moves, tick.samples).app
             /\ catch_log' = perform_step(tick.start, tick.moves, tick.samples).log]_vars

\* a tick the timer started is between two phases, with particles, while a
\* Clear click and a Step click wait in the queue
C31_Witness ==
    /\ tick.phase = "remove"
    /\ tick.by = "timeout"
    /\ tick.queued # {}
    /\ Len(events) = 2
    /\ events[1].signal = "clear_clicked"
    /\ events[2].signal = "step_clicked"

\* the elements of a sequence at the positions outside a set, in order
Without(seq, positions) ==
    LET RECURSIVE From(_)
        From(i) == IF i > Len(seq) THEN <<>>
                   ELSE IF i \in positions THEN From(i + 1)
                        ELSE <<seq[i]>> \o From(i + 1)
    IN  From(1)

\* C33: the caught are queued and removed after the capture loop.  Over the
\* loop the particle collection is not modified and every particle present
\* after the move is evaluated exactly once, in order; the queue holds
\* exactly the particles a region or a cell caught; the batch removal takes
\* exactly those out and keeps every other particle, in order.
C33_CaughtRemovedAfterLoop ==
    [][/\ (tick.phase = "catch" /\ tick'.phase = "remove") =>
             /\ particle_manager' = particle_manager
             /\ Len(tick'.entries) = Len(particle_manager.particles)
             /\ \A i \in 1..Len(particle_manager.particles) :
                   /\ tick'.entries[i].x = particle_manager.particles[i].x
                   /\ tick'.entries[i].y = particle_manager.particles[i].y
                   /\ tick'.entries[i].born = particle_manager.particles[i].born
                   /\ i \in tick'.queued <=> Caught(tick'.entries[i])
       /\ (tick.phase = "remove" /\ tick'.phase = "expire") =>
             /\ particle_manager'.particles =
                    Without(particle_manager.particles,
                            {i \in 1..Len(tick.entries) : Caught(tick.entries[i])})
             /\ mask_system' = mask_system]_vars

\* the batch removal has taken out the first of two particles, caught by
\* its cell, and kept the second, which nothing caught
C33_Witness ==
    /\ tick.phase = "expire"
    /\ Len(tick.entries) = 2
    /\ tick.entries[1].cell = "hit"
    /\ ~Caught(tick.entries[2])
    /\ Len(particle_manager.particles) = 1
    /\ particle_manager.particles[1].born = tick.entries[2].born

\* a value an accessor returned reads as it did when it was returned
Unchanged(view) == Read(particle_manager, view) = view.at_return

\* the values of the copying accessors stay as they were returned
CopiesStay ==
    \A v \in DOMAIN views :
        views[v].of # "get_particles" => Unchanged(views[v])

\* C32: the accessors hand out snapshots: whatever a caller does to a value
\* it was given and whatever the core does later, every value an accessor
\* returned reads as it did when it was returned (changes the caller made
\* itself apart)
C32_AccessorsReturnSnapshots ==
    \A v \in DOMAIN views : Unchanged(views[v])

\* C34: in a tick where the spawner fires exactly spawn_count particles are
\* added, at the spawner's position and with age 0, before the move (so
\* each is moved once in that tick); in a tick where it does not fire none
\* is added; spawn_multiple_particles(x, y, count) adds exactly count
C34_SpawnAddsExactlyCount ==
    [][last'.op = "perform_step" =>
          LET fired == should_spawn(spawner).ret = "True"
              k == IF fired THEN spawner.spawn_count ELSE 0
              old == particle_manager.particles
              new == spawn_phase(App).particle_manager.particles
          IN  /\ Len(new) = Len(old) + k
              /\ SubSeq(new, 1, Len(old)) = old
              /\ \A i \in (Len(old) + 1)..Len(new) :
                    /\ new[i].x = get_position(spawner)[1]
                    /\ new[i].y = get_position(spawner)[2]
                    /\ new[i].age = 0
              /\ catch_log' # NoTick =>
                    /\ catch_log'.spawned = k
                    /\ Len(catch_log'.entries) = Len(old) + k
                    /\ \A i \in 1..Len(catch_log'.entries) :
                          catch_log'.entries[i].age =
                              IF i <= Len(old) THEN old[i].age + 1 ELSE 1
              /\ \A count \in 0..MaxArg :
                    Len(spawn_multiple_particles(particle_manager, 0, 0, count, 1)
                            .particles) = Len(old) + count]_vars

\* a tick in which the spawner fired with spawn_count 1 while a particle of
\* an earlier tick was held
C34_Witness ==
    /\ last.op = "perform_step"
    /\ catch_log.spawned = 1
    /\ Len(catch_log.entries) = 2
    /\ catch_log.entries[1].age = 2
    /\ catch_log.entries[2].age = 1

\* the cell captures of a tick's history that were made at a cell
CellCapturesAt(ms, log, g) ==
    Cardinality({i \in 1..Len(log.entries) :
        /\ log.entries[i].cell = "hit"
        /\ coord_to_grid(ms, log.entries[i].x, log.entries[i].y) = g})

C36_ProfileApplied ==
    (last.op = "load_selected_profile" /\ last.name \in ProfileNames) =>
        /\ current_config = merge_profile_config(config_manager, last.name)
        /\ spawner.spawn_count = current_config.spawner.spawn_count
        /\ dividers =
               load_from_config(
                   merge_profile_config(config_manager, last.name).dividers)

\* the cells at or above the saturation threshold of the configuration
Saturated(ms, config) ==
    {c \in DOMAIN ms.mask_grid :
        ms.mask_grid[c] >= MaskUnits(config.step_function.saturation_threshold)}

\* C37: saturation is absorbing.  The threshold stays as it is unless a
\* profile is loaded, and a cell at or above it is not decreased by a tick
\* or a panel handler: it stays saturated until clear_simulation (reset_mask)
\* or a profile load (a new grid)
C37_SaturationIsAbsorbing ==
    [][last'.op \notin {"clear_simulation", "load_selected_profile"} =>
          /\ current_config'.step_function.saturation_threshold =
                 current_config.step_function.saturation_threshold
          /\ \A c \in Saturated(mask_system, current_config) :
                /\ mask_system'.mask_grid[c] >= mask_system.mask_grid[c]
                /\ c \in Saturated(mask_system', current_config')]_vars

\* a cell exactly at the threshold came through a tick that captured nothing
\* and decayed by a half, next to a cell below the threshold that decayed
C37_Witness ==
    /\ last.op = "perform_step"
    /\ step_counter = MaxTicks
    /\ current_config.step_function.decay_rate = 2
    /\ \A i \in 1..Len(catch_log.entries) : catch_log.entries[i].cell # "hit"
    /\ \E c \in DOMAIN mask_system.mask_grid :
          /\ mask_system.mask_grid[c] =
                 MaskUnits(current_config.step_function.saturation_threshold)
          /\ catch_log.before_decay[c] = mask_system.mask_grid[c]

\* C38: a capture probability of 0 disables the mechanism whatever the
\* sample: in a tick no particle in a region of probability 0 is caught by
\* region, and with a cell catch probability of 0 no particle is caught by
\* its cell and the grid is not stamped
C38_ZeroProbabilityDisables ==
    [][(last'.op = "perform_step" /\ catch_log' # NoTick) =>
          \A i \in 1..Len(catch_log'.entries) :
              /\ get_region_probability(dividers, catch_log'.entries[i].x) = 0 =>
                    catch_log'.entries[i].region # "hit"
              /\ current_config.catching.probability = 0 =>
                    /\ catch_log'.entries[i].cell # "hit"
                    /\ ~catch_log'.entries[i].stamped]_vars

\* the least integer not below a / b, for a >= 0 and b > 0
CeilDiv(a, b) == (a + b - 1) \div b

\* c * ceil((L - 1) / k) for the spawner and the lifetime in force
PopulationBound ==
    spawner.spawn_count
        * CeilDiv(particle_manager.max_lifetime - 1, spawner.spawn_interval)

\* C39: with spawn_count c, spawn_interval k and max_lifetime L left alone,
\* after every completed tick from a cleared simulation the number of live
\* particles is at most c * ceil((L - 1) / k)
C39_PopulationBounded ==
    last.op \in {"perform_step", "clear_simulation", "load_selected_profile"} =>
        Len(particle_manager.particles) <= PopulationBound

\* the fourth tick of a run with spawn_count 2, spawn_interval 2 and
\* lifetime 3 that captured nothing: the bound 2 is attained
C39_Witness ==
    /\ last.op = "perform_step"
    /\ step_counter = MaxLongRun
    /\ spawner.spawn_count = 2
    /\ spawner.spawn_interval = 2
    /\ particle_manager.max_lifetime = 3
    /\ catch_log.expired = 2
    /\ Len(particle_manager.particles) = PopulationBound

\* what the j-th of the next calls of should_spawn() returns
RECURSIVE ResultOfCall(_, _)
ResultOfCall(sp, j) ==
    IF j <= 1 THEN should_spawn(sp).ret
    ELSE ResultOfCall(should_spawn(sp).sp, j - 1)

\* get_next_spawn_steps() tells the number of the next call of should_spawn()
\* that returns True
PredictsNextSpawn(sp) ==
    /\ get_next_spawn_steps(sp).raised = "None"
    /\ 1 <= get_next_spawn_steps(sp).ret
    /\ get_next_spawn_steps(sp).ret <= sp.spawn_interval
    /\ \A j \in 1..get_next_spawn_steps(sp).ret :
          ResultOfCall(sp, j) = Bool(j = get_next_spawn_steps(sp).ret)

\* the prediction holds for every active spawner whose interval is >= 1, and
\* an inactive spawner answers False and -1 and keeps its counter
PredictsNextSpawnFromOne ==
    IF spawner.is_active
    THEN spawner.spawn_interval >= 1 => PredictsNextSpawn(spawner)
    ELSE /\ should_spawn(spawner) = [sp |-> spawner, ret |-> "False"]
         /\ get_next_spawn_steps(spawner) = [ret |-> 0 - 1, raised |-> "None"]

\* C40: in every reachable state of an active spawner get_next_spawn_steps()
\* returns n with 1 <= n <= spawn_interval, and of the next n calls of
\* should_spawn() the first n - 1 return False and the n-th True; an inactive
\* spawner answers False without advancing the counter, and -1
C40_NextSpawnStepsPredicts ==
    IF spawner.is_active
    THEN PredictsNextSpawn(spawner)
    ELSE /\ should_spawn(spawner) = [sp |-> spawner, ret |-> "False"]
         /\ get_next_spawn_steps(spawner) = [ret |-> 0 - 1, raised |-> "None"]

=============================================================================
